---- MODULE Spec2Model ----
(***************************************************************************)
(* The threshold refinement engine of llmgrep's interactive search:       *)
(* autoRefineSearch and binarySearchDistance, driving the external search *)
(* primitive through performSearch.                                       *)
(*                                                                        *)
(* Distances are JavaScript numbers in the source.  They are modelled as  *)
(* exact fixed-point integers: one hundredth (0.01) is Hundredth units,   *)
(* a power of two, so that every midpoint (left + right) / 2 the loop can  *)
(* reach before the bracket is narrower than the precision is exact.      *)
(*                                                                        *)
(* A step of the model runs from the settling of one awaited primitive    *)
(* call to the issue of the next one (or to the return of the engine):    *)
(* the engine is single-threaded and suspends only on performSearch.      *)
(***************************************************************************)
EXTENDS Integers, Sequences, FiniteSets, TLC

\* ------------------------------------------------------------------ scale
Hundredth == 2^10

\* ------------------------------------------------- program constants
MAX_RESULTS_DISPLAY == 25
AUTO_REFINE_MAX_ATTEMPTS == 15
OPTIMAL_RESULT_MIN == 15
DISTANCE_THRESHOLDS ==
  << 30 * Hundredth, 35 * Hundredth, 40 * Hundredth, 45 * Hundredth, 50 * Hundredth >>
BINARY_SEARCH_PRECISION == 2 * Hundredth

\* ------------------------------------------------------------- bounds
\* maxAttempts values tried besides the default AUTO_REFINE_MAX_ATTEMPTS
MaxAttemptsBound == 6
\* remainingAttempts values tried when binarySearchDistance is entered directly
MaxRemaining == 4
\* range searched for the exponent ceil(log2(width / precision))
LogRange == 12

\* result counts the primitive may report: the boundaries of the window
\* [1, MAX_RESULTS_DISPLAY] and of the early-acceptance test
Counts ==
  { 0, 1, OPTIMAL_RESULT_MIN - 1, OPTIMAL_RESULT_MIN,
    MAX_RESULTS_DISPLAY, MAX_RESULTS_DISPLAY + 1 }

\* bracket end points tried when binarySearchDistance is entered directly:
\* the probe distances and three points that give brackets narrower than,
\* equal to and slightly wider than the precision
BracketPoints ==
  { DISTANCE_THRESHOLDS[i] : i \in 1..Len(DISTANCE_THRESHOLDS) }
    \cup { 30 * Hundredth + Hundredth \div 2, 32 * Hundredth, 33 * Hundredth }

\* 0 is the non-positive budget a caller could pass
MaxAttemptsInputs == (0..MaxAttemptsBound) \cup {AUTO_REFINE_MAX_ATTEMPTS}

\* the ways one spawn of the search command can end: the 'error' event, or
\* the 'close' event with an exit code
SearchEvents ==
  { [event |-> "error", code |-> 0],
    [event |-> "close", code |-> 0],
    [event |-> "close", code |-> 1] }

Null == -1
\* the JavaScript number NaN; every other number, counts included, is held
\* in fixed point like the distances, and a whole number is a multiple of
\* Hundredth * 100
NaN == -2
\* a timestamp string that does not parse as a date
BadTs == -3
One == 100 * Hundredth
IsInteger(x) == x # NaN /\ x % One = 0
Whole(x) == x \div One
NoCall == [cutoff |-> Null, by |-> "none", kind |-> "none"]

VARIABLES
  entry,          \* the function the run was started with
  stubCount,      \* the primitive's result count at each probe distance
  maxAttempts,    \* autoRefineSearch parameter
  pc,             \* "start", the function suspended in, "done" or "rejected"
  pending,        \* the performSearch call in flight, or NoCall
  auto,           \* locals of autoRefineSearch
  bs,             \* parameters and locals of binarySearchDistance
  calls,          \* log of the settled performSearch calls
  displayed,      \* log of the displayResultsAndCopy invocations
  outcome,        \* how autoRefineSearch ended
  bsResult,       \* what binarySearchDistance returned
  asm,            \* the result assembler under test: arrays before and after
  cli,            \* a command-line run: its arguments, locals and outcome
  proc,           \* the child process the run is waiting for
  searches,       \* log of the primitive calls the run has issued
  pure,           \* a library function under test: its argument and result
  mgr,            \* a resource manager under test: its set and the resources
  run             \* a spawn helper under test: its children, timer and result

engineVars ==
  << entry, stubCount, maxAttempts, pc, pending, auto, bs, calls, displayed,
     outcome, bsResult >>

\* the state of the components the refinement engine does not touch
flowVars == << cli, proc, searches >>

\* the library under test on its own
libVars == << pure, mgr, run >>

outsideEngine == << asm, flowVars, libVars >>

vars == << engineVars, outsideEngine >>

\* JavaScript null and undefined, where an object is expected
JsNull == [ kind |-> "null" ]
Undefined == [ kind |-> "undefined" ]

\* no assembler call is under way
AsmIdle ==
  [ impl |-> "none", pc |-> "idle", given |-> << >>, results |-> << >>,
    entries |-> << >>, first |-> << >>, second |-> << >> ]

\* an entry without timestamp; an option without date
NoTs == 0
NoDate == 0

\* a command line carrying the query alone
ArgvNone ==
  [ threshold |-> [ flag |-> "none", value |-> Null ], topK |-> Null,
    limit |-> Null, after |-> NoDate, before |-> NoDate ]

\* the options object before parseArgs has run
OptionsNone ==
  [ topK |-> Null, context |-> Null, limit |-> Null, maxDistance |-> Null,
    afterDate |-> NoDate, beforeDate |-> NoDate ]

\* no command-line run is under way
CliIdle ==
  [ program |-> "none", pc |-> "idle", argv |-> ArgvNone, emitted |-> << >>,
    options |-> OptionsNone, extracted |-> "none", allEntries |-> << >>,
    entries |-> << >>, corpus |-> << >>, filtered |-> FALSE,
    results |-> << >>, shown |-> << >>, report |-> "none", exitCode |-> 0,
    tempFile |-> "none", unlinks |-> 0 ]

\* no child process is running
ProcIdle ==
  [ what |-> "none", args |-> << >>, timer |-> "none", elapsed |-> 0,
    timedOut |-> FALSE ]

PureIdle == [ fn |-> "none" ]
MgrIdle == [ kind |-> "none" ]
RunIdle == [ fn |-> "none" ]

LibIdle ==
  /\ pure = PureIdle
  /\ mgr = MgrIdle
  /\ run = RunIdle

FlowsIdle ==
  /\ cli = CliIdle
  /\ proc = ProcIdle
  /\ searches = << >>

\* ---------------------------------------------------------------- helpers
\* JavaScript truthiness of a 'number | null' local
Truthy(d) == d # Null /\ d # 0

ProbeIndex(d) ==
  { i \in 1..Len(DISTANCE_THRESHOLDS) : DISTANCE_THRESHOLDS[i] = d }

\* The counts the primitive can report at cutoff d.  The primitive is a
\* deterministic search over a fixed corpus file: a cutoff already answered
\* in this run gets the same answer, a probe distance gets the count fixed
\* for the run, any other cutoff may get any count.
StubCounts(d) ==
  LET earlier == { k \in 1..Len(calls) :
                     calls[k].cutoff = d /\ calls[k].event = "close" /\ calls[k].code = 0 }
  IN  IF earlier # {} THEN { calls[k].count : k \in earlier }
      ELSE IF ProbeIndex(d) # {} /\ ProbeIndex(d) \subseteq DOMAIN stubCount
        THEN { stubCount[i] : i \in ProbeIndex(d) }
      ELSE Counts

\* variant: a non-zero exit code is read as an empty result list
performSearchIgnoringExitCode(ev, n) ==
  IF ev.event = "error" THEN [rejected |-> TRUE, length |-> 0]
  ELSE IF ev.code # 0 THEN [rejected |-> FALSE, length |-> 0]
  ELSE [rejected |-> FALSE, length |-> n]

\* performSearch: the promise rejects on the 'error' event and on a non-zero
\* exit code, and otherwise resolves with the parsed output lines
performSearch(ev, n) ==
  IF ev.event = "error" THEN [rejected |-> TRUE, length |-> 0]
  ELSE IF ev.code # 0 THEN [rejected |-> TRUE, length |-> 0]
  ELSE [rejected |-> FALSE, length |-> n]

\* ------------------------------------------------ the engine's control state
\* The part of the state a step rewrites, as one record, so that the code's
\* straight-line continuations (loop heads, returns into the caller) compose.
Cur ==
  [ pc |-> pc, pending |-> pending, auto |-> auto, bs |-> bs,
    displayed |-> displayed, outcome |-> outcome, bsResult |-> bsResult ]

\* resultsLength is results.length of the probe of the current loop body,
\* which the body still reads after binarySearchDistance has returned
AutoIdle ==
  [ idx |-> 0, attempt |-> 0, lastGoodDistance |-> Null, lastGoodCount |-> 0,
    resultsLength |-> 0 ]
BSIdle ==
  [ minDistance |-> Null, maxDistance |-> Null, remainingAttempts |-> 0,
    left |-> Null, right |-> Null, bestDistance |-> Null, bestCount |-> 0,
    attempts |-> 0 ]

\* displayResultsAndCopy(results, entries, query, tempFile, currentDistance):
\* the engine hands over a result list (its length n, produced by settled
\* call number k) together with the cutoff
displayResultsAndCopy(s, n, k, d) ==
  [ s EXCEPT !.displayed = Append(@, [cutoff |-> d, count |-> n, call |-> k]) ]

IssueSearch(s, who, what, d) ==
  [ s EXCEPT !.pc = who, !.pending = [cutoff |-> d, by |-> who, kind |-> what] ]

Finish(s, how) ==
  [ s EXCEPT !.pc = "done", !.pending = NoCall, !.outcome = how ]

\* ------------------------------------------------------ autoRefineSearch
\* variant: results.length < MAX_RESULTS_DISPLAY
InWindowStrict(n) == n < MAX_RESULTS_DISPLAY

\* results.length <= MAX_RESULTS_DISPLAY
InWindow(n) == n <= MAX_RESULTS_DISPLAY

\* variant: attempt++ > maxAttempts
BudgetSpentLate(attempt) == attempt > maxAttempts

\* variant: ++attempt >= maxAttempts
BudgetSpentPreIncrement(attempt) == attempt + 1 >= maxAttempts

\* attempt++ >= maxAttempts, on the value before the increment
BudgetSpent(attempt) == attempt >= maxAttempts

\* variant: the null test on lastGoodDistance is missing
BracketDetectedWithoutNullTest(a) == a.lastGoodCount < MAX_RESULTS_DISPLAY

\* lastGoodDistance !== null && lastGoodCount < MAX_RESULTS_DISPLAY
BracketDetected(a) ==
  a.lastGoodDistance # Null /\ a.lastGoodCount < MAX_RESULTS_DISPLAY

\* the code after the for loop
AfterLoop(s) ==
  IF Truthy(s.auto.lastGoodDistance)
    THEN IssueSearch(s, "autoRefineSearch", "best", s.auto.lastGoodDistance)
    ELSE Finish(s, "CouldNotFind")

\* the head of the for loop, about to take DISTANCE_THRESHOLDS[i]
ForLoop(s, i) ==
  IF i > Len(DISTANCE_THRESHOLDS) THEN AfterLoop(s)
  ELSE
    LET s1 == [ s EXCEPT !.auto.idx = i, !.auto.attempt = @ + 1 ]
    IN  IF BudgetSpent(s.auto.attempt)
          THEN IF Truthy(s.auto.lastGoodDistance)
                 THEN IssueSearch(s1, "autoRefineSearch", "best", s.auto.lastGoodDistance)
                 ELSE Finish(s1, "MaxAttempts")
          ELSE IssueSearch(s1, "autoRefineSearch", "probe", DISTANCE_THRESHOLDS[i])

\* variant: the probe is recorded without the in-window test
RecordAlwaysAndContinue(s) ==
  ForLoop([ s EXCEPT !.auto.lastGoodDistance = DISTANCE_THRESHOLDS[s.auto.idx],
                     !.auto.lastGoodCount = s.auto.resultsLength ],
          s.auto.idx + 1)

\* the end of one loop body for a too-broad probe: the (second) in-window
\* test that records lastGoodDistance, then the next iteration
RecordAndContinue(s) ==
  LET s1 == IF InWindow(s.auto.resultsLength)
              THEN [ s EXCEPT !.auto.lastGoodDistance = DISTANCE_THRESHOLDS[s.auto.idx],
                              !.auto.lastGoodCount = s.auto.resultsLength ]
              ELSE s
  IN  ForLoop(s1, s.auto.idx + 1)

\* --------------------------------------------------- binarySearchDistance
\* variant: the precision test is missing
LoopConditionWithoutPrecision(b) == b.attempts < b.remainingAttempts

\* attempts < remainingAttempts && right - left > BINARY_SEARCH_PRECISION
LoopCondition(b) ==
  b.attempts < b.remainingAttempts /\ b.right - b.left > BINARY_SEARCH_PRECISION

\* variant: left + right / 2
MidpointUnparenthesised(l, r) == l + (r \div 2)

\* const mid = (left + right) / 2
Midpoint(l, r) == (l + r) \div 2

\* variant: results.length > OPTIMAL_RESULT_MIN
IsOptimalStrict(n) == n > OPTIMAL_RESULT_MIN

\* results.length >= OPTIMAL_RESULT_MIN
IsOptimal(n) == n >= OPTIMAL_RESULT_MIN

\* variant: bestCount > 1
HasBestAboveOne(b) == b.bestCount > 1

\* bestCount > 0
HasBest(b) == b.bestCount > 0

\* variant: bestDistance is left at what it was
RecordBestCountOnly(s, mid, n) == [ s EXCEPT !.bs.bestCount = n ]

\* bestDistance = mid; bestCount = results.length
RecordBest(s, mid, n) == [ s EXCEPT !.bs.bestDistance = mid, !.bs.bestCount = n ]

\* binarySearchDistance returns v: into autoRefineSearch when it was called
\* from there, otherwise to the caller that started the run
ReturnFromBinarySearch(s, v) ==
  LET s1 == [ s EXCEPT !.bsResult = IF v THEN "true" ELSE "false" ]
  IN  IF entry = "binarySearchDistance" THEN [ s1 EXCEPT !.pc = "done", !.pending = NoCall ]
      ELSE IF v THEN Finish(s1, "Refined")
      ELSE RecordAndContinue(s1)

\* the head of the while loop, and the code after it
WhileLoop(s) ==
  IF LoopCondition(s.bs)
    THEN IssueSearch([ s EXCEPT !.bs.attempts = @ + 1 ],
                     "binarySearchDistance", "mid", Midpoint(s.bs.left, s.bs.right))
  ELSE IF HasBest(s.bs)
    THEN IssueSearch(s, "binarySearchDistance", "best", s.bs.bestDistance)
  ELSE ReturnFromBinarySearch(s, FALSE)

\* the call binarySearchDistance(.., minDistance, maxDistance, remainingAttempts)
EnterBinarySearch(s, lo, hi, rem) ==
  WhileLoop([ s EXCEPT !.bs =
                [ minDistance |-> lo, maxDistance |-> hi, remainingAttempts |-> rem,
                  left |-> lo, right |-> hi, bestDistance |-> lo, bestCount |-> 0,
                  attempts |-> 0 ] ])

\* ------------------------------------------------------------------ steps
\* the log entry of a settled call: how the spawned command ended and, when
\* it ended normally, how many result lines it printed
Settled(ev, n) ==
  Append(calls, [ cutoff |-> pending.cutoff, by |-> pending.by, kind |-> pending.kind,
                  event |-> ev.event, code |-> ev.code,
                  count |-> IF ev.event = "close" /\ ev.code = 0 THEN n ELSE 0 ])

Apply(s) ==
  /\ pc' = s.pc
  /\ pending' = s.pending
  /\ auto' = s.auto
  /\ bs' = s.bs
  /\ displayed' = s.displayed
  /\ outcome' = s.outcome
  /\ bsResult' = s.bsResult

\* a rejected performSearch promise is not caught anywhere in the engine:
\* the await throws and the rejection leaves every function on the stack
Reject == [ Cur EXCEPT !.pc = "rejected", !.pending = NoCall ]

\* autoRefineSearch is called: it runs to its first performSearch
StartAutoRefine ==
  /\ pc = "start"
  /\ entry = "autoRefineSearch"
  /\ Apply(ForLoop([ Cur EXCEPT !.auto = AutoIdle ], 1))
  /\ UNCHANGED << entry, stubCount, maxAttempts, calls, outsideEngine >>

\* binarySearchDistance is called with the bracket and budget held in bs
StartBinarySearch ==
  /\ pc = "start"
  /\ entry = "binarySearchDistance"
  /\ Apply(EnterBinarySearch(Cur, bs.minDistance, bs.maxDistance, bs.remainingAttempts))
  /\ UNCHANGED << entry, stubCount, maxAttempts, calls, outsideEngine >>

\* the performSearch awaited by autoRefineSearch settles: the rest of the
\* loop body (or of the 'using best result' branch) runs
AutoRefineResume(ev, n) ==
  LET r == performSearch(ev, n)
      k == Len(calls) + 1
      d == pending.cutoff
      s == [ Cur EXCEPT !.auto.resultsLength = r.length ]
  IN  IF r.rejected THEN Reject
      ELSE IF pending.kind = "best"
        THEN Finish(displayResultsAndCopy(Cur, r.length, k, d), "UsingBest")
      ELSE IF r.length = 0 THEN ForLoop(s, auto.idx + 1)
      ELSE IF InWindow(r.length)
        THEN Finish(displayResultsAndCopy(s, r.length, k, d), "Found")
      ELSE IF BracketDetected(auto)
        THEN EnterBinarySearch(s, auto.lastGoodDistance, d, maxAttempts - auto.attempt)
      ELSE RecordAndContinue(s)

AutoRefineStep ==
  /\ pc = "autoRefineSearch"
  /\ \E ev \in SearchEvents : \E n \in StubCounts(pending.cutoff) :
       /\ Apply(AutoRefineResume(ev, n))
       /\ calls' = Settled(ev, n)
  /\ UNCHANGED << entry, stubCount, maxAttempts, outsideEngine >>

\* the performSearch awaited by binarySearchDistance settles: the rest of
\* the while body (or of the 'use the best we found' branch) runs
BinarySearchResume(ev, n) ==
  LET r == performSearch(ev, n)
      k == Len(calls) + 1
      mid == pending.cutoff
  IN  IF r.rejected THEN Reject
      ELSE IF pending.kind = "best"
        THEN ReturnFromBinarySearch(displayResultsAndCopy(Cur, r.length, k, bs.bestDistance), TRUE)
      ELSE IF r.length = 0
        THEN WhileLoop([ Cur EXCEPT !.bs.left = mid ])
      ELSE IF InWindow(r.length)
        THEN LET s == RecordBest(Cur, mid, r.length)
             IN  IF IsOptimal(r.length)
                   THEN ReturnFromBinarySearch(displayResultsAndCopy(s, r.length, k, mid), TRUE)
                   ELSE WhileLoop([ s EXCEPT !.bs.left = mid ])
      ELSE WhileLoop([ Cur EXCEPT !.bs.right = mid ])

BinarySearchStep ==
  /\ pc = "binarySearchDistance"
  /\ \E ev \in SearchEvents : \E n \in StubCounts(pending.cutoff) :
       /\ Apply(BinarySearchResume(ev, n))
       /\ calls' = Settled(ev, n)
  /\ UNCHANGED << entry, stubCount, maxAttempts, outsideEngine >>

\* ------------------------------------------------------------ specification
InitCommon ==
  /\ pc = "start"
  /\ pending = NoCall
  /\ auto = AutoIdle
  /\ calls = << >>
  /\ displayed = << >>
  /\ outcome = "none"
  /\ bsResult = "none"

\* a refinement run: handleTooManyResults calls autoRefineSearch
InitAutoRefine ==
  /\ entry = "autoRefineSearch"
  /\ stubCount \in [ 1..Len(DISTANCE_THRESHOLDS) -> Counts ]
  /\ maxAttempts \in MaxAttemptsInputs
  /\ bs = BSIdle

\* binarySearchDistance on its own, over its parameter space
InitBinarySearch ==
  /\ entry = "binarySearchDistance"
  /\ stubCount = << >>
  /\ maxAttempts = AUTO_REFINE_MAX_ATTEMPTS
  /\ \E lo \in BracketPoints, hi \in BracketPoints, rem \in 0..MaxRemaining :
       bs = [ BSIdle EXCEPT !.minDistance = lo, !.maxDistance = hi,
                            !.remainingAttempts = rem ]

Init ==
  /\ InitCommon
  /\ InitAutoRefine \/ InitBinarySearch
  /\ asm = AsmIdle
  /\ FlowsIdle
  /\ LibIdle

Next ==
  \/ StartAutoRefine
  \/ StartBinarySearch
  \/ AutoRefineStep
  \/ BinarySearchStep

Spec == Init /\ [][Next]_vars

\* ====================================================== result assembler
\* The join of raw matches to entries and the ordering by distance.  Two
\* implementations exist: the exported functions attachEntries and
\* sortByDistance, and the statements at the head of the earlier
\* displayResultsAndCopy, which work on the caller's array.  An array is a
\* sequence of result objects; asm.results is the caller's array as it
\* stands, asm.given the same array as it was handed over.

\* ------------------------------------------------------------- bounds
\* longest list of raw matches
MaxMatches == 3
\* longest entry list
MaxAsmEntries == 2
\* largest line number a raw match carries
MaxLineNumber == 2

\* distances of the raw matches: equal ones, and both orders of unequal ones
AsmDistances == { 10 * Hundredth, 40 * Hundredth }
\* an entry list holds entry objects; a line that parsed to null is falsy
AsmEntryValues ==
  { [ kind |-> "entry", id |-> "A" ], [ kind |-> "entry", id |-> "B" ], JsNull }

SeqsUpTo(S, n) == UNION { [ 1..k -> S ] : k \in 0..n }

\* parseSearchOutput builds every match with entry: null
RawMatches ==
  [ lineNumber : 0..MaxLineNumber, distance : AsmDistances, entry : {JsNull} ]

\* entries[n] of a JavaScript array: undefined beyond its end
EntryAt(entries, n) ==
  IF n + 1 \in DOMAIN entries THEN entries[n + 1] ELSE Undefined

\* if (entry)
TruthyEntry(e) == e # JsNull /\ e # Undefined

\* results.filter(...) instead of results.map(...)
attachEntriesDroppingUnmatched(results, entries) ==
  LET kept == SelectSeq(results,
                LAMBDA r : TruthyEntry(EntryAt(entries, r.lineNumber)))
  IN [ i \in 1..Len(kept) |->
         [ kept[i] EXCEPT !.entry = EntryAt(entries, kept[i].lineNumber) ] ]

\* results.map(result => entry ? { ...result, entry } : result)
attachEntries(results, entries) ==
  [ i \in 1..Len(results) |->
      LET found == EntryAt(entries, results[i].lineNumber)
      IN IF TruthyEntry(found)
           THEN [ results[i] EXCEPT !.entry = found ]
           ELSE results[i] ]

\* Array.prototype.sort is stable: an element goes after the ones already
\* placed whose distance is not greater
InsertByDistance(sorted, x) ==
  LET k == Cardinality({ i \in 1..Len(sorted) : sorted[i].distance <= x.distance })
  IN SubSeq(sorted, 1, k) \o << x >> \o SubSeq(sorted, k + 1, Len(sorted))

RECURSIVE SortPrefix(_, _)
SortPrefix(results, n) ==
  IF n = 0 THEN << >>
  ELSE InsertByDistance(SortPrefix(results, n - 1), results[n])

\* [...results].sort((a, b) => a.distance - b.distance)
sortByDistance(results) == SortPrefix(results, Len(results))

\* for (const result of results) result.entry = entries[result.lineNumber]
AttachInPlace(results, entries) ==
  [ i \in 1..Len(results) |->
      [ results[i] EXCEPT !.entry = EntryAt(entries, results[i].lineNumber) ] ]

\* one call of the assembler on the caller's array: what it returns and
\* what the caller's array holds afterwards
Assemble(impl, results, entries) ==
  IF impl = "functions"
    THEN [ output |-> sortByDistance(attachEntries(results, entries)),
           results |-> results ]
    ELSE LET sorted == sortByDistance(AttachInPlace(results, entries))
         IN [ output |-> sorted, results |-> sorted ]

\* the assembler is applied to the caller's array
AssembleFirst ==
  /\ asm.pc = "start"
  /\ LET r == Assemble(asm.impl, asm.results, asm.entries)
     IN asm' = [ asm EXCEPT !.pc = "once", !.first = r.output,
                            !.results = r.results ]
  /\ UNCHANGED << engineVars, flowVars, libVars >>

\* and applied again to the same array and entry list
AssembleSecond ==
  /\ asm.pc = "once"
  /\ LET r == Assemble(asm.impl, asm.results, asm.entries)
     IN asm' = [ asm EXCEPT !.pc = "twice", !.second = r.output,
                            !.results = r.results ]
  /\ UNCHANGED << engineVars, flowVars, libVars >>

\* the refinement engine at rest
EngineIdle ==
  /\ entry = "none"
  /\ stubCount = << >>
  /\ maxAttempts = AUTO_REFINE_MAX_ATTEMPTS
  /\ pc = "idle"
  /\ pending = NoCall
  /\ auto = AutoIdle
  /\ bs = BSIdle
  /\ calls = << >>
  /\ displayed = << >>
  /\ outcome = "none"
  /\ bsResult = "none"

InitAssemble ==
  /\ EngineIdle
  /\ FlowsIdle
  /\ LibIdle
  /\ \E impl \in {"functions", "inline"},
        given \in SeqsUpTo(RawMatches, MaxMatches),
        entries \in SeqsUpTo(AsmEntryValues, MaxAsmEntries) :
       asm = [ AsmIdle EXCEPT !.impl = impl, !.pc = "start", !.given = given,
                              !.results = given, !.entries = entries ]

NextAssemble == AssembleFirst \/ AssembleSecond

SpecAssemble == InitAssemble /\ [][NextAssemble]_vars

\* ==================================================== command-line flows
\* interactive-search.ts (the interactive flow), and the two plain llmgrep
\* flows: the one that extracts entries itself and writes the corpus file
\* ("llmgrep"), and the one that pipes the extractor into the primitive
\* ("llmgrep-pipe").  A step runs from the settling of one awaited child
\* process to the spawning of the next, or to the end of main.

\* ------------------------------------------------- program constants
DEFAULT_TOP_K == 3 * One
DEFAULT_CONTEXT == 3 * One
DEFAULT_LIMIT == 10 * One
THRESHOLD_STRICT == 30 * Hundredth
THRESHOLD_PRECISE == 40 * Hundredth
THRESHOLD_BROAD == 55 * Hundredth
DEFAULT_DISTANCE == THRESHOLD_PRECISE
EXPANDED_DISTANCE == THRESHOLD_BROAD

\* ------------------------------------------------------------- bounds
\* most lines the extractor emits
MaxLines == 2
\* the search timeout, in ticks of the wall clock
TimeoutTicks == 1

\* ------------------------------------------------------------- inputs
\* the threshold flag of the command line: none, a preset, or
\* --max-distance with a value inside or outside [0, 1]
ThresholdArgs ==
  { [ flag |-> "none", value |-> Null ],
    [ flag |-> "--strict", value |-> Null ],
    [ flag |-> "--precise", value |-> Null ],
    [ flag |-> "--broad", value |-> Null ],
    [ flag |-> "--max-distance", value |-> 60 * Hundredth ],
    [ flag |-> "--max-distance", value |-> 150 * Hundredth ] }

\* timestamps of entries, and the dates of --after and --before
Timestamps == { NoTs, 1, 2 }

Argvs ==
  [ threshold : ThresholdArgs, topK : { Null, One }, limit : { Null, One },
    after : { NoDate, 2 }, before : { NoDate, 1 } ]

\* texts of entries, as character sequences; the first character stands
\* for what the text is about
Texts == { << "n" >>, << "f", "\n", "r" >>, << "o" >> }

\* a line of extractor output: an entry, a JSON record without a string
\* text field, or a line that is not JSON
ExtractorLines ==
  { l \in [ kind : {"entry"}, timestamp : Timestamps, text : Texts ] :
      l.text = <<"o">> => l.timestamp = NoTs }
    \cup { [ kind |-> "object", timestamp |-> NoTs, text |-> << >> ],
           [ kind |-> "garbage", timestamp |-> NoTs, text |-> << >> ] }

\* how a child process settles
ChildEvents ==
  { [ event |-> "error", code |-> Null ],
    [ event |-> "close", code |-> 0 ],
    [ event |-> "close", code |-> 2 ],
    [ event |-> "close", code |-> Null ] }

\* ------------------------------------------------------------ options
InteractiveDefaults ==
  [ topK |-> Null, context |-> Null, limit |-> DEFAULT_LIMIT,
    maxDistance |-> DEFAULT_DISTANCE ]

NoDefaults ==
  [ topK |-> Null, context |-> Null, limit |-> Null, maxDistance |-> Null ]

\* a ?? b on numbers
Coalesce(a, b) == IF a # Null THEN a ELSE b

\* parseArgs: the options start from topK, context and limit alone, and the
\* flags of the command line are applied to them
parseArgs(args, defaults) ==
  [ topK |-> Coalesce(args.topK, Coalesce(defaults.topK, DEFAULT_TOP_K)),
    context |-> Coalesce(defaults.context, DEFAULT_CONTEXT),
    limit |-> Coalesce(args.limit, Coalesce(defaults.limit, DEFAULT_LIMIT)),
    maxDistance |->
      CASE args.threshold.flag = "--strict" -> THRESHOLD_STRICT
        [] args.threshold.flag = "--precise" -> THRESHOLD_PRECISE
        [] args.threshold.flag = "--broad" -> THRESHOLD_BROAD
        [] args.threshold.flag = "--max-distance" -> args.threshold.value
        [] OTHER -> Null,
    afterDate |-> args.after,
    beforeDate |-> args.before ]

\* afterDate > beforeDate is the only order refused
DatesInOrderOrEqual(afterDate, beforeDate) == afterDate <= beforeDate

\* not (afterDate >= beforeDate)
DatesInOrder(afterDate, beforeDate) == afterDate < beforeDate

\* validateSearchOptions does not throw
validateSearchOptions(options) ==
  /\ options.topK # Null => (IsInteger(options.topK) /\ options.topK > 0)
  /\ options.maxDistance # Null =>
       /\ options.maxDistance # NaN
       /\ options.maxDistance >= 0
       /\ options.maxDistance <= One
  /\ options.context # Null => (IsInteger(options.context) /\ options.context >= 0)
  /\ options.limit # Null => (IsInteger(options.limit) /\ options.limit > 0)
  /\ (options.afterDate # NoDate /\ options.beforeDate # NoDate) =>
       DatesInOrder(options.afterDate, options.beforeDate)

\* ---------------------------------------------------------- extraction
\* text.replace(/\n/g, ' ')
Flatten(text) ==
  [ i \in 1..Len(text) |-> IF text[i] = "\n" THEN " " ELSE text[i] ]

FlattenAll(es) == [ i \in 1..Len(es) |-> Flatten(es[i].text) ]

\* the 'line' handler of extractMetadata over the emitted lines: a line
\* that does not parse is skipped; a parsed record is pushed to entries and
\* then its flattened text to textLines, which throws (and is caught) when
\* the record has no string text
extractMetadata(emitted) ==
  [ entries |-> SelectSeq(emitted, LAMBDA l : l.kind # "garbage"),
    textLines |-> FlattenAll(SelectSeq(emitted, LAMBDA l : l.kind = "entry")) ]

\* the 'line' handler of extractWithMetadata: every parsed record is pushed
extractWithMetadata(emitted) == SelectSeq(emitted, LAMBDA l : l.kind # "garbage")

\* writeEntriesToTempFile throws at an entry without string text
CanWriteEntries(es) == \A i \in 1..Len(es) : es[i].kind = "entry"

\* new Date(timestamp).getTime(): the instant the string names, or NaN for
\* a string that is not a date
NewDate(timestamp) == IF timestamp = BadTs THEN NaN ELSE timestamp

\* a < b on Date values: false when either is an Invalid Date
DateLess(a, b) == a # NaN /\ b # NaN /\ a < b

\* the bounds are inclusive
KeepsInRange(t, afterDate, beforeDate) ==
  ~ \/ (afterDate # NoDate /\ DateLess(NewDate(t), afterDate))
    \/ (beforeDate # NoDate /\ DateLess(beforeDate, NewDate(t)))

\* filterByDateRange
filterByDateRange(es, afterDate, beforeDate) ==
  IF afterDate = NoDate /\ beforeDate = NoDate THEN es
  ELSE SelectSeq(es, LAMBDA e :
         \/ e.timestamp = NoTs
         \/ KeepsInRange(e.timestamp, afterDate, beforeDate))

\* ------------------------------------------------------- the primitive
\* both mode flags pushed
SearchArgsBoth(context, topK, maxDistance) ==
  << [ flag |-> "-n", value |-> context ],
     [ flag |-> "-m", value |-> maxDistance ],
     [ flag |-> "--top-k", value |-> Coalesce(topK, DEFAULT_TOP_K) ] >>

\* the argument list of the search command after the query and the file
SearchArgs(context, topK, maxDistance) ==
  << [ flag |-> "-n", value |-> context ] >> \o
  ( IF maxDistance # Null
      THEN << [ flag |-> "-m", value |-> maxDistance ] >>
      ELSE << [ flag |-> "--top-k", value |-> Coalesce(topK, DEFAULT_TOP_K) ] >> )

ArgValue(args, flag) ==
  LET at == { j \in 1..Len(args) : args[j].flag = flag }
  IN IF at = {} THEN Null
     ELSE args[CHOOSE j \in at : \A k \in at : j <= k].value

\* the distance the primitive measures between the query and a corpus line
DistanceOfLine(line) ==
  CASE line # << >> /\ line[1] = "n" -> 10 * Hundredth
    [] line # << >> /\ line[1] = "f" -> 50 * Hundredth
    [] OTHER -> 70 * Hundredth

\* the corpus lines a call matches: those below the cutoff, or the k nearest
HitSets(corpus, args) ==
  LET cutoff == ArgValue(args, "-m")
      k == ArgValue(args, "--top-k")
      all == 1..Len(corpus)
      size == IF Whole(k) < Len(corpus) THEN Whole(k) ELSE Len(corpus)
  IN IF cutoff # Null
       THEN { { i \in all : DistanceOfLine(corpus[i]) < cutoff } }
       ELSE { S \in SUBSET all :
                /\ Cardinality(S) = size
                /\ \A i \in S, j \in all \ S :
                     DistanceOfLine(corpus[i]) <= DistanceOfLine(corpus[j]) }

Orderings(S) ==
  { f \in [ 1..Cardinality(S) -> S ] :
      \A i \in DOMAIN f, j \in DOMAIN f : i # j => f[i] # f[j] }

\* what parseSearchOutput makes of the output of a successful call: one
\* match per hit, in the order the primitive printed them, with the number
\* of the line counted from 0
PrimitiveAnswers(corpus, args) ==
  { [ i \in DOMAIN f |->
        [ lineNumber |-> f[i] - 1, distance |-> DistanceOfLine(corpus[f[i]]),
          entry |-> JsNull ] ] :
      f \in UNION { Orderings(S) : S \in HitSets(corpus, args) } }

\* spawn('search', searchArgs), with or without the timeout timer
SpawnSearch(log, what, context, topK, maxDistance, timer) ==
  /\ proc' = [ what |-> what, args |-> SearchArgs(context, topK, maxDistance),
               timer |-> timer, elapsed |-> 0, timedOut |-> FALSE ]
  /\ searches' = Append(log,
       [ args |-> SearchArgs(context, topK, maxDistance), topK |-> topK,
         maxDistance |-> maxDistance, event |-> "pending", code |-> Null,
         timedOut |-> FALSE, count |-> 0, kept |-> 0 ])

\* the log once the call in flight has settled
LogSettled(ev, count, kept) ==
  [ searches EXCEPT ![Len(searches)] =
      [ @ EXCEPT !.event = ev.event, !.code = ev.code, !.count = count,
                 !.kept = kept, !.timedOut = proc.timedOut ] ]

\* globalTempManager.cleanupAll(): the tracked corpus file is unlinked
CleanedUp(c) ==
  IF c.tempFile = "exists"
    THEN [ c EXCEPT !.tempFile = "removed", !.unlinks = @ + 1 ]
    ELSE c

\* main rejects and nothing catches the rejection: the process ends with a
\* non-zero exit code, through the 'uncaughtException' handler and its
\* cleanup when the runtime raises the rejection as such an exception
Unhandled(c, raised) ==
  LET ended == [ c EXCEPT !.pc = "rejected", !.exitCode = 1 ]
  IN IF raised THEN CleanedUp(ended) ELSE ended

\* the wall clock advances while a search runs; a timer that is armed
\* fires when the timeout is reached
SearchTick ==
  /\ proc.what \in {"search", "pipe"}
  /\ proc.timer # "fired"
  /\ proc.elapsed < (IF proc.timer = "armed" THEN TimeoutTicks ELSE TimeoutTicks + 1)
  /\ proc' = [ proc EXCEPT !.elapsed = @ + 1 ]
  /\ UNCHANGED << cli, searches, engineVars, asm, libVars >>

\* ------------------------------------------------ interactive-search.ts
\* if (filtered) results.filter(r => entryIndices.has(r.lineNumber))
KeepIndexed(results, filtered, es) ==
  IF filtered
    THEN SelectSeq(results, LAMBDA r : r.lineNumber \in 0..(Len(es) - 1))
    ELSE results

\* a second call whatever the first returned
AutoExpandAlways(results, options) ==
  Coalesce(options.maxDistance, DEFAULT_DISTANCE) < EXPANDED_DISTANCE

\* results.length === 0 and currentDistance < EXPANDED_DISTANCE
AutoExpand(results, options) ==
  /\ Len(results) = 0
  /\ Coalesce(options.maxDistance, DEFAULT_DISTANCE) < EXPANDED_DISTANCE

\* results.slice(-limit)
SliceTail(results, limit) ==
  SubSeq(results,
         IF Whole(limit) < Len(results) THEN Len(results) - Whole(limit) + 1 ELSE 1,
         Len(results))

\* results.slice(0, limit)
Slice(results, limit) ==
  SubSeq(results, 1,
         IF Whole(limit) < Len(results) THEN Whole(limit) ELSE Len(results))

\* main up to the await of extractMetadata
InteractiveMain ==
  /\ cli.program = "interactive-search"
  /\ cli.pc = "start"
  /\ LET options == parseArgs(cli.argv, InteractiveDefaults)
     IN IF ~validateSearchOptions(options)
          THEN /\ cli' = [ cli EXCEPT !.options = options, !.pc = "done",
                                      !.report = "validation", !.exitCode = 1 ]
               /\ UNCHANGED proc
          ELSE /\ cli' = [ cli EXCEPT !.options = options, !.pc = "extract",
                                      !.tempFile = "exists" ]
               /\ proc' = [ ProcIdle EXCEPT !.what = "extract" ]
  /\ UNCHANGED << searches, engineVars, asm, libVars >>

\* the extractor settles: main rejects, or goes on to the first search
InteractiveExtractSettles ==
  /\ cli.program = "interactive-search"
  /\ cli.pc = "extract"
  /\ \E ev \in ChildEvents, raised \in BOOLEAN :
       IF ev.event = "error" \/ ev.code # 0
         THEN /\ cli' = Unhandled([ cli EXCEPT !.extracted = "failed" ], raised)
              /\ proc' = ProcIdle
              /\ UNCHANGED searches
         ELSE LET x == extractMetadata(cli.emitted)
                  kept == filterByDateRange(x.entries, cli.options.afterDate,
                                            cli.options.beforeDate)
              IN /\ cli' = [ cli EXCEPT !.pc = "search", !.extracted = "ok",
                               !.allEntries = x.entries, !.corpus = x.textLines,
                               !.entries = kept,
                               !.filtered = (Len(x.entries) # Len(kept)) ]
                 /\ SpawnSearch(searches, "search", 0, cli.options.topK,
                                cli.options.maxDistance, "none")
  /\ UNCHANGED << engineVars, asm, libVars >>

\* a search settles: main rejects, expands once, reports no results, or
\* hands the assembled and limited results to displayResultsAndCopy
InteractiveSearchSettles ==
  /\ cli.program = "interactive-search"
  /\ cli.pc \in {"search", "expand"}
  /\ \E ev \in ChildEvents, answer \in PrimitiveAnswers(cli.corpus, proc.args),
        raised \in BOOLEAN :
       LET parsed == IF ev.event = "close" /\ ev.code = 0 THEN answer ELSE << >>
           results == KeepIndexed(parsed, cli.filtered, cli.entries)
           log == LogSettled(ev, Len(parsed), Len(results))
       IN IF ev.event = "error" \/ ev.code # 0
            THEN /\ cli' = Unhandled(cli, raised)
                 /\ proc' = ProcIdle
                 /\ searches' = log
            ELSE IF cli.pc = "search" /\ AutoExpand(results, cli.options)
            THEN /\ cli' = [ cli EXCEPT !.pc = "expand", !.results = results ]
                 /\ SpawnSearch(log, "search", 0, Null, EXPANDED_DISTANCE, "none")
            ELSE IF Len(results) = 0
            THEN /\ cli' = [ cli EXCEPT !.pc = "done", !.results = results,
                                        !.report = "noResults" ]
                 /\ proc' = ProcIdle
                 /\ searches' = log
            ELSE /\ cli' = [ cli EXCEPT !.pc = "done", !.results = results,
                               !.report = "results",
                               !.shown = Slice(sortByDistance(
                                    attachEntries(results, cli.entries)),
                                    Coalesce(cli.options.limit, DEFAULT_LIMIT)) ]
                 /\ proc' = ProcIdle
                 /\ searches' = log
  /\ UNCHANGED << engineVars, asm, libVars >>

\* ------------------------------------------------------ plain llmgrep
\* code ?? 0
ExitCodeOrZero(code) == IF code = Null THEN 0 ELSE code

\* code ?? 1: a child ended by a signal closes with a null code
ExitCodeOf(code) == IF code = Null THEN 1 ELSE code

\* setTimeout(() => { timedOut = true; search.kill(); }, timeout)
TimerFires ==
  /\ proc.what \in {"search", "pipe"}
  /\ proc.timer = "armed"
  /\ proc.elapsed = TimeoutTicks
  /\ proc' = [ proc EXCEPT !.timer = "fired", !.timedOut = TRUE ]
  /\ UNCHANGED << cli, searches, engineVars, asm, libVars >>

\* main up to its first await: extractWithMetadata, or pipeProcesses
PlainMain ==
  /\ cli.program \in {"llmgrep", "llmgrep-pipe"}
  /\ cli.pc = "start"
  /\ LET options == parseArgs(cli.argv, NoDefaults)
     IN IF ~validateSearchOptions(options)
          THEN /\ cli' = [ cli EXCEPT !.options = options, !.pc = "done",
                                      !.report = "validation", !.exitCode = 1 ]
               /\ UNCHANGED << proc, searches >>
          ELSE IF cli.program = "llmgrep"
          THEN /\ cli' = [ cli EXCEPT !.options = options, !.pc = "extract" ]
               /\ proc' = [ ProcIdle EXCEPT !.what = "extract" ]
               /\ UNCHANGED searches
          ELSE /\ cli' = [ cli EXCEPT !.options = options, !.pc = "search",
                             !.corpus = FlattenAll(SelectSeq(cli.emitted,
                                          LAMBDA l : l.kind = "entry")) ]
               /\ SpawnSearch(searches, "pipe", options.context, options.topK,
                              options.maxDistance, "armed")
  /\ UNCHANGED << engineVars, asm, libVars >>

\* the extractor of llmgrep settles: extraction failure, nothing in the
\* date range, a corpus that cannot be written, or the search is spawned
PlainExtractSettles ==
  /\ cli.program = "llmgrep"
  /\ cli.pc = "extract"
  /\ \E ev \in ChildEvents, raised \in BOOLEAN :
       LET allEntries == extractWithMetadata(cli.emitted)
           kept == filterByDateRange(allEntries, cli.options.afterDate,
                                     cli.options.beforeDate)
       IN IF ev.event = "error" \/ ev.code # 0
            THEN /\ cli' = [ cli EXCEPT !.pc = "done", !.extracted = "failed",
                               !.report = "extraction", !.exitCode = 1 ]
                 /\ proc' = ProcIdle
                 /\ UNCHANGED searches
            ELSE IF Len(kept) = 0
            THEN /\ cli' = [ cli EXCEPT !.pc = "done", !.extracted = "ok",
                               !.allEntries = allEntries, !.entries = kept,
                               !.report = "noEntries" ]
                 /\ proc' = ProcIdle
                 /\ UNCHANGED searches
            ELSE IF ~CanWriteEntries(kept)
            THEN /\ cli' = Unhandled([ cli EXCEPT !.extracted = "ok",
                               !.allEntries = allEntries, !.entries = kept,
                               !.tempFile = "exists" ], raised)
                 /\ proc' = ProcIdle
                 /\ UNCHANGED searches
            ELSE /\ cli' = [ cli EXCEPT !.pc = "search", !.extracted = "ok",
                               !.allEntries = allEntries, !.entries = kept,
                               !.corpus = FlattenAll(kept),
                               !.filtered = (Len(allEntries) # Len(kept)),
                               !.tempFile = "exists" ]
                 /\ SpawnSearch(searches, "search", cli.options.context,
                                cli.options.topK, cli.options.maxDistance, "armed")
  /\ UNCHANGED << engineVars, asm, libVars >>

\* what main does with the result of the search
PlainOutcome(timedOut, exitCode, answer) ==
  IF timedOut
    THEN [ cli EXCEPT !.pc = "done", !.report = "timeout", !.exitCode = 1 ]
  ELSE IF exitCode # 0
    THEN [ cli EXCEPT !.pc = "done", !.report = "searchFailed",
                      !.exitCode = exitCode ]
  ELSE IF Len(answer) > 0
    THEN [ cli EXCEPT !.pc = "done", !.report = "results", !.shown = answer ]
  ELSE [ cli EXCEPT !.pc = "done", !.report = "noResults" ]

\* the search of llmgrep settles; once the timer has fired the child
\* closes, killed or having exited just before
PlainSearchSettles ==
  /\ cli.program = "llmgrep"
  /\ cli.pc = "search"
  /\ \E ev \in ChildEvents, answer \in PrimitiveAnswers(cli.corpus, proc.args) :
       /\ proc.timer = "fired" => ev.event = "close"
       /\ LET stdout == IF ev.event = "close" /\ ev.code = 0 THEN answer ELSE << >>
          IN /\ cli' = IF ev.event = "error"
                         THEN [ cli EXCEPT !.pc = "done", !.report = "searchFailed",
                                           !.exitCode = 1 ]
                         ELSE PlainOutcome(proc.timedOut, ExitCodeOf(ev.code), stdout)
             /\ searches' = LogSettled(ev, Len(stdout), Len(stdout))
  /\ proc' = ProcIdle
  /\ UNCHANGED << engineVars, asm, libVars >>

\* pipeProcesses settles: a spawn that throws, or both children exited
PipeSettles ==
  /\ cli.program = "llmgrep-pipe"
  /\ cli.pc = "search"
  /\ \E ev \in ChildEvents, sourceExitCode \in {0, 2},
        answer \in PrimitiveAnswers(cli.corpus, proc.args) :
       /\ proc.timer = "fired" => ev.event = "close"
       /\ ev.code = Null => (ev.event = "error" \/ proc.timer = "fired")
       /\ LET stdout == IF ev.event = "close" /\ ev.code = 0 /\ sourceExitCode = 0
                          THEN answer ELSE << >>
          IN /\ cli' =
                  IF ev.event = "error"
                    THEN [ cli EXCEPT !.pc = "done", !.report = "searchFailed",
                                      !.exitCode = 1 ]
                  ELSE IF ~proc.timedOut /\ sourceExitCode # 0
                    THEN [ cli EXCEPT !.pc = "done", !.extracted = "failed",
                                      !.report = "extraction", !.exitCode = 1 ]
                  ELSE [ PlainOutcome(proc.timedOut, ev.code, stdout)
                           EXCEPT !.extracted =
                             IF sourceExitCode = 0 THEN "ok" ELSE "failed" ]
             /\ searches' = LogSettled(ev, Len(stdout), Len(stdout))
  /\ proc' = ProcIdle
  /\ UNCHANGED << engineVars, asm, libVars >>

\* ------------------------------------------------------- specification
Programs == { "interactive-search", "llmgrep", "llmgrep-pipe" }

InitFlows ==
  /\ EngineIdle
  /\ asm = AsmIdle
  /\ LibIdle
  /\ proc = ProcIdle
  /\ searches = << >>
  /\ \E program \in Programs, argv \in Argvs,
        emitted \in SeqsUpTo(ExtractorLines, MaxLines) :
       \* extract-text.ts, the source of the pipe, prints texts without metadata
       /\ program = "llmgrep-pipe" =>
            \A i \in 1..Len(emitted) : emitted[i].timestamp = NoTs
       \* --limit is read by the interactive flow alone, and has nothing to
       \* cut from the single result of --top-k 1
       /\ argv.limit # Null => (program = "interactive-search" /\ argv.topK = Null)
       /\ cli = [ CliIdle EXCEPT !.program = program, !.pc = "start",
                                !.argv = argv, !.emitted = emitted ]

NextFlows ==
  \/ InteractiveMain
  \/ InteractiveExtractSettles
  \/ InteractiveSearchSettles
  \/ PlainMain
  \/ PlainExtractSettles
  \/ PlainSearchSettles
  \/ PipeSettles
  \/ SearchTick
  \/ TimerFires

SpecFlows == InitFlows /\ [][NextFlows]_vars

\* ------------------------------------------------------------- signals
\* most lines the extractor emits in the runs that a signal may interrupt
MaxSignalLines == 1

\* SIGINT or SIGTERM reaches a running process: the handler kills the
\* tracked children, removes the tracked temp files and exits
Signal ==
  /\ cli.pc \in {"extract", "search", "expand"}
  /\ \E sig \in { [ name |-> "SIGINT", exit |-> 130 ],
                  [ name |-> "SIGTERM", exit |-> 143 ] } :
       cli' = [ CleanedUp(cli) EXCEPT !.pc = "done", !.report = sig.name,
                                      !.exitCode = sig.exit ]
  /\ proc' = ProcIdle
  /\ UNCHANGED << searches, engineVars, asm, libVars >>

InitSignals ==
  /\ InitFlows
  /\ Len(cli.emitted) <= MaxSignalLines

NextSignals == NextFlows \/ Signal

SpecSignals == InitSignals /\ [][NextSignals]_vars

\* ===================================================== library functions
\* The pure functions of the library, each called once on an argument drawn
\* from a bounded set: pure holds the function, its argument and, after the
\* call, what it returned.  Strings the functions take apart are sequences
\* of characters.

\* ------------------------------------------------------------- bounds
\* lines of search output handed to parseSearchOutput
MaxOutputLines == 2
\* entries handed to filterByDateRange
MaxFiltered == 2
\* entry counts handed to calculateTimeout, in thousands
MaxThousands == 25

\* ---------------------------------------------------- parseSearchOutput
DigitChars == << "0", "1", "2", "3", "4", "5", "6", "7", "8", "9" >>
DigitSet == { DigitChars[i] : i \in 1..Len(DigitChars) }
DigitValue(c) == (CHOOSE i \in 1..Len(DigitChars) : DigitChars[i] = c) - 1
\* the characters \s matches
Blanks == { " ", "\t", "\r" }

\* the character at position i, or "" past the end
At(line, i) == IF i \in 1..Len(line) THEN line[i] ELSE ""

\* where a greedy run of characters of S that starts at i stops
RunEnd(line, i, S) ==
  LET stops == { j \in i..(Len(line) + 1) : At(line, j) \notin S }
  IN CHOOSE j \in stops : \A k \in stops : j <= k

\* where a greedy run of characters other than c that starts at i stops
RunEndNot(line, i, c) ==
  LET stops == { j \in i..(Len(line) + 1) : At(line, j) \in { c, "" } }
  IN CHOOSE j \in stops : \A k \in stops : j <= k

\* parseInt(digits, 10) of a run of decimal digits
RECURSIVE parseInt(_)
parseInt(digits) ==
  IF digits = << >> THEN 0
  ELSE 10 * parseInt(SubSeq(digits, 1, Len(digits) - 1))
         + DigitValue(digits[Len(digits)])

\* the value of the decimals of a number, to the resolution of the scale
RECURSIVE Fraction(_, _)
Fraction(digits, weight) ==
  IF digits = << >> THEN 0
  ELSE DigitValue(Head(digits)) * (weight \div 10)
         + Fraction(Tail(digits), weight \div 10)

\* parseFloat of a run of digits and points: the longest prefix that is a
\* decimal number, or NaN when that prefix holds no digit
parseFloat(chars) ==
  LET i == RunEnd(chars, 1, DigitSet)
      whole == SubSeq(chars, 1, i - 1)
      j == IF At(chars, i) = "." THEN RunEnd(chars, i + 1, DigitSet) ELSE i
      decimals == SubSeq(chars, i + 1, j - 1)
  IN IF whole = << >> /\ decimals = << >> THEN NaN
     ELSE parseInt(whole) * One + Fraction(decimals, One)

NoMatch == [ kind |-> "no match" ]

\* \s instead of \s+
BlankEndOne(line, i) == IF At(line, i) \in Blanks THEN i + 1 ELSE i

\* \s+
BlankEnd(line, i) == RunEnd(line, i, Blanks)

\* line.match(/^[^:]+:(\d+)::(\d+)\s+\(([0-9.]+)\)/) and the result built
\* from its groups.  Every repetition is followed by a character it cannot
\* hold, so the greedy run is the only way to match.
MatchLine(line) ==
  LET a == RunEndNot(line, 1, ":")
      b == RunEnd(line, a + 1, DigitSet)
      c == RunEnd(line, b + 2, DigitSet)
      d == BlankEnd(line, c)
      e == RunEnd(line, d + 1, DigitSet \cup {"."})
  IN IF /\ a > 1 /\ At(line, a) = ":"
        /\ b > a + 1 /\ At(line, b) = ":" /\ At(line, b + 1) = ":"
        /\ c > b + 2
        /\ d > c /\ At(line, d) = "("
        /\ e > d + 1 /\ At(line, e) = ")"
     THEN [ lineNumber |-> parseInt(SubSeq(line, a + 1, b - 1)),
            distance |-> parseFloat(SubSeq(line, d + 1, e - 1)),
            entry |-> JsNull ]
     ELSE NoMatch

\* output.split('\n')
RECURSIVE SplitLines(_)
SplitLines(output) ==
  LET k == RunEndNot(output, 1, "\n")
  IN IF k > Len(output) THEN << output >>
     ELSE << SubSeq(output, 1, k - 1) >>
            \o SplitLines(SubSeq(output, k + 1, Len(output)))

parseSearchOutput(output) ==
  LET lines == SplitLines(output)
      matches == [ i \in 1..Len(lines) |-> MatchLine(lines[i]) ]
  IN SelectSeq(matches, LAMBDA m : m # NoMatch)

\* lines the primitive may print, well-formed and not
OutputLines ==
  { \* f:1::2 (0.1)
    << "f", ":", "1", ":", ":", "2", " ", "(", "0", ".", "1", ")" >>,
    \* two digits, two blanks
    << "p", ":", "1", "2", ":", ":", "3", " ", "\t", "(", "0", ".", "2", "5", ")" >>,
    \* text after the closing parenthesis
    << "f", ":", "2", ":", ":", "1", " ", "(", "0", ".", "4", ")", "x" >>,
    \* a distance that is a lone point
    << "f", ":", "3", ":", ":", "1", " ", "(", ".", ")" >>,
    \* the empty line
    << >>,
    \* no colon at all
    << "b", "a", "d" >>,
    \* no file name
    << ":", "1", ":", ":", "2", " ", "(", "0", ".", "1", ")" >>,
    \* one colon where two are due
    << "f", ":", "1", ":", "2", " ", "(", "0", ".", "1", ")" >>,
    \* no blank before the parenthesis
    << "f", ":", "1", ":", ":", "2", "(", "0", ".", "1", ")" >>,
    \* a line number that is not a number
    << "f", ":", "x", ":", ":", "2", " ", "(", "0", ".", "1", ")" >>,
    \* a distance that is not a number
    << "f", ":", "1", ":", ":", "2", " ", "(", "a", ")" >>,
    \* no closing parenthesis
    << "f", ":", "1", ":", ":", "2", " ", "(", "0", ".", "1" >> }

\* lines.join('\n')
RECURSIVE JoinLines(_)
JoinLines(lines) ==
  IF Len(lines) = 1 THEN lines[1]
  ELSE lines[1] \o << "\n" >> \o JoinLines(Tail(lines))

\* ---------------------------------------------------- filterByDateRange
\* timestamps of the entries handed to the filter: none, three instants and
\* a string that is not a date
FilterTimestamps == { NoTs, 1, 2, 3, BadTs }
FilterDates == { NoDate, 1, 2, 3 }
FilterEntries ==
  [ kind : {"entry"}, timestamp : FilterTimestamps, text : { <<"n">>, <<"o">> } ]

\* ------------------------------------------------ validateSearchOptions
OptionSets ==
  [ topK : { Null, NaN, 0 - One, 0, One \div 2, One, 3 * One },
    maxDistance : { Null, NaN, 0 - Hundredth, 0, 50 * Hundredth, One,
                    One + Hundredth },
    context : { Null, NaN, 0 - One, 0, One \div 2, 3 * One },
    limit : { Null, 0 - One, 0, One, One + (One \div 2) },
    afterDate : { NoDate, 1, 2 },
    beforeDate : { NoDate, 1, 2 } ]

\* ------------------------------------------------------ calculateTimeout
baseTimeout == 120000
perThousand == 5000

\* Math.floor(n / d)
FloorDiv(n, d) == n \div d

\* Math.ceil(n / d), n and d whole and d positive
CeilDiv(n, d) == (n + d - 1) \div d

calculateTimeout(entryCount) ==
  LET scaled == CeilDiv(entryCount, 1000) * perThousand
  IN IF baseTimeout >= scaled THEN baseTimeout ELSE scaled

\* entry counts at, just above and just below the thousands
EntryCounts ==
  { k * 1000 + d : k \in 0..MaxThousands, d \in { 0, 1, 999 } }

\* ------------------------------------------------------------- the calls
CallParseSearchOutput ==
  /\ pure.fn = "parseSearchOutput"
  /\ pure.pc = "call"
  /\ pure' = [ pure EXCEPT !.pc = "returned",
                           !.output = parseSearchOutput(pure.input) ]
  /\ UNCHANGED << engineVars, asm, flowVars, mgr, run >>

CallFilterByDateRange ==
  /\ pure.fn = "filterByDateRange"
  /\ pure.pc = "call"
  /\ pure' = [ pure EXCEPT !.pc = "returned",
                           !.output = filterByDateRange(pure.input.entries,
                                        pure.input.afterDate, pure.input.beforeDate) ]
  /\ UNCHANGED << engineVars, asm, flowVars, mgr, run >>

\* the function reads its argument and assigns nothing
CallValidateSearchOptions ==
  /\ pure.fn = "validateSearchOptions"
  /\ pure.pc = "call"
  /\ pure' = [ pure EXCEPT !.pc = IF validateSearchOptions(pure.input)
                                  THEN "returned" ELSE "threw" ]
  /\ UNCHANGED << engineVars, asm, flowVars, mgr, run >>

\* two calls, to compare the timeouts of two corpora
CallCalculateTimeout ==
  /\ pure.fn = "calculateTimeout"
  /\ pure.pc = "call"
  /\ pure' = [ pure EXCEPT !.pc = "returned",
                           !.output = << calculateTimeout(pure.input[1]),
                                         calculateTimeout(pure.input[2]) >> ]
  /\ UNCHANGED << engineVars, asm, flowVars, mgr, run >>

\* ------------------------------------------------------- specification
\* one call, of any of the functions, on any argument
InitPure ==
  /\ EngineIdle
  /\ asm = AsmIdle
  /\ FlowsIdle
  /\ mgr = MgrIdle
  /\ run = RunIdle
  /\ \/ \E ls \in SeqsUpTo(OutputLines, MaxOutputLines) \ { << >> } :
          pure = [ fn |-> "parseSearchOutput", pc |-> "call", lines |-> ls,
                   input |-> JoinLines(ls), output |-> << >> ]
     \/ \E es \in SeqsUpTo(FilterEntries, MaxFiltered),
           a \in FilterDates, b \in FilterDates :
          pure = [ fn |-> "filterByDateRange", pc |-> "call", lines |-> << >>,
                   input |-> [ entries |-> es, afterDate |-> a, beforeDate |-> b ],
                   output |-> << >> ]
     \/ \E o \in OptionSets :
          pure = [ fn |-> "validateSearchOptions", pc |-> "call",
                   lines |-> << >>, input |-> o, output |-> << >> ]
     \/ \E n \in EntryCounts, m \in EntryCounts :
          pure = [ fn |-> "calculateTimeout", pc |-> "call", lines |-> << >>,
                   input |-> << n, m >>, output |-> << >> ]

NextPure ==
  \/ CallParseSearchOutput
  \/ CallFilterByDateRange
  \/ CallValidateSearchOptions
  \/ CallCalculateTimeout

SpecPure == InitPure /\ [][NextPure]_vars

\* ===================================================== resource managers
\* TempFileManager and ProcessManager of cleanup.ts, each on its own.  The
\* methods of TempFileManager are async: a step runs from one await to the
\* next, and steps of different calls interleave.  The methods of
\* ProcessManager are synchronous; only the callbacks on proc.exited run
\* later.

\* ------------------------------------------------------------- bounds
\* temp files created by one manager
MaxPaths == 2
\* processes handed to one manager
MaxProcs == 2
\* track calls for one process
MaxTracks == 2

Paths == 1..MaxPaths
Procs == 1..MaxProcs

\* -------------------------------------------------------- TempFileManager
TempInit ==
  [ kind |-> "temp",
    files |-> {},                          \* this.files
    disk |-> {},                           \* the paths at which a file exists
    creates |-> [ p \in Paths |-> "none" ],   \* each create call's position
    ops |-> {},                            \* cleanup calls awaiting unlink
    all |-> "idle",                        \* the cleanupAll call's position
    atReturn |-> [ files |-> {}, disk |-> {} ] ]  \* the state cleanupAll returned in

\* create, up to 'await Bun.write': the path is fresh
TempCreate(p) ==
  /\ mgr.kind = "temp"
  /\ mgr.creates[p] = "none"
  /\ mgr' = [ mgr EXCEPT !.creates[p] = "writing" ]
  /\ UNCHANGED << engineVars, asm, flowVars, pure, run >>

\* the file system carries out the write
TempWritten(p) ==
  /\ mgr.kind = "temp"
  /\ mgr.creates[p] = "writing"
  /\ mgr' = [ mgr EXCEPT !.creates[p] = "written", !.disk = @ \cup {p} ]
  /\ UNCHANGED << engineVars, asm, flowVars, pure, run >>

\* create, after the await: this.files.add(path); return path
TempCreateReturns(p) ==
  /\ mgr.kind = "temp"
  /\ mgr.creates[p] = "written"
  /\ mgr' = [ mgr EXCEPT !.creates[p] = "returned", !.files = @ \cup {p} ]
  /\ UNCHANGED << engineVars, asm, flowVars, pure, run >>

\* cleanup(path), up to 'await unlink', called with a path create returned
TempCleanup(p) ==
  /\ mgr.kind = "temp"
  /\ mgr.creates[p] = "returned"
  /\ [ path |-> p, by |-> "cleanup" ] \notin mgr.ops
  /\ mgr' = [ mgr EXCEPT !.ops = @ \cup { [ path |-> p, by |-> "cleanup" ] } ]
  /\ UNCHANGED << engineVars, asm, flowVars, pure, run >>

\* cleanupAll, up to 'await Promise.all': a cleanup call for each path of
\* the snapshot Array.from(this.files)
TempCleanupAll ==
  /\ mgr.kind = "temp"
  /\ mgr.all = "idle"
  /\ mgr' = [ mgr EXCEPT
       !.all = "waiting",
       !.ops = @ \cup { [ path |-> p, by |-> "cleanupAll" ] : p \in mgr.files } ]
  /\ UNCHANGED << engineVars, asm, flowVars, pure, run >>

\* cleanup, after the await: unlink has removed the file or has thrown for
\* a file already gone; this.files.delete(path)
TempUnlinkSettles ==
  /\ mgr.kind = "temp"
  /\ \E op \in mgr.ops :
       mgr' = [ mgr EXCEPT !.ops = @ \ {op},
                           !.disk = @ \ {op.path},
                           !.files = @ \ {op.path} ]
  /\ UNCHANGED << engineVars, asm, flowVars, pure, run >>

\* cleanupAll, after the await: every cleanup call of the snapshot has
\* settled
TempCleanupAllReturns ==
  /\ mgr.kind = "temp"
  /\ mgr.all = "waiting"
  /\ \A op \in mgr.ops : op.by # "cleanupAll"
  /\ mgr' = [ mgr EXCEPT !.all = "returned",
                         !.atReturn = [ files |-> mgr.files, disk |-> mgr.disk ] ]
  /\ UNCHANGED << engineVars, asm, flowVars, pure, run >>

\* --------------------------------------------------------- ProcessManager
NoOp == [ op |-> "none", proc |-> 0 ]

ProcInit ==
  [ kind |-> "proc",
    processes |-> << >>,                   \* this.processes, in insertion order
    alive |-> [ p \in Procs |-> TRUE ],
    handlers |-> [ p \in Procs |-> 0 ],    \* callbacks on proc.exited not yet run
    given |-> {},                          \* the processes track was called with
    last |-> NoOp ]                        \* the method or callback that ran last

\* Set.prototype.add
SetAdd(s, p) ==
  IF \E i \in 1..Len(s) : s[i] = p THEN s ELSE Append(s, p)

\* Set.prototype.delete
SetDelete(s, p) == SelectSeq(s, LAMBDA q : q # p)

\* track(proc)
ProcTrack(p) ==
  /\ mgr.kind = "proc"
  /\ mgr.handlers[p] < MaxTracks
  /\ mgr' = [ mgr EXCEPT !.processes = SetAdd(@, p),
                         !.handlers[p] = @ + 1,
                         !.given = @ \cup {p},
                         !.last = [ op |-> "track", proc |-> p ] ]
  /\ UNCHANGED << engineVars, asm, flowVars, pure, run >>

\* a process exits by itself
ProcExits(p) ==
  /\ mgr.kind = "proc"
  /\ mgr.alive[p]
  /\ mgr' = [ mgr EXCEPT !.alive[p] = FALSE,
                         !.last = [ op |-> "exit", proc |-> p ] ]
  /\ UNCHANGED << engineVars, asm, flowVars, pure, run >>

\* a callback registered by track on proc.exited runs
ProcExitedCallback(p) ==
  /\ mgr.kind = "proc"
  /\ ~ mgr.alive[p]
  /\ mgr.handlers[p] > 0
  /\ mgr' = [ mgr EXCEPT !.processes = SetDelete(@, p),
                         !.handlers[p] = @ - 1,
                         !.last = [ op |-> "exited", proc |-> p ] ]
  /\ UNCHANGED << engineVars, asm, flowVars, pure, run >>

\* kill(proc) on a manager state: proc.kill() (an error of a dead process
\* is swallowed) and this.processes.delete(proc)
KillOne(m, p) ==
  [ m EXCEPT !.alive[p] = FALSE, !.processes = SetDelete(@, p) ]

\* only the first process of the set is killed
KillFirstOnly(m) ==
  IF m.processes = << >> THEN m ELSE KillOne(m, m.processes[1])

\* for (const proc of this.processes) this.kill(proc): the Set iterator
\* goes on to the elements that remain after the one it visits is deleted
RECURSIVE KillEach(_)
KillEach(m) ==
  IF m.processes = << >> THEN m ELSE KillEach(KillOne(m, m.processes[1]))

\* kill(proc), for a process tracked or not, running or not
ProcKill(p) ==
  /\ mgr.kind = "proc"
  /\ mgr' = [ KillOne(mgr, p) EXCEPT !.last = [ op |-> "kill", proc |-> p ] ]
  /\ UNCHANGED << engineVars, asm, flowVars, pure, run >>

\* killAll()
ProcKillAll ==
  /\ mgr.kind = "proc"
  /\ mgr.last.op # "killAll"
  /\ mgr' = [ KillEach(mgr) EXCEPT !.last = [ op |-> "killAll", proc |-> 0 ] ]
  /\ UNCHANGED << engineVars, asm, flowVars, pure, run >>

\* ------------------------------------------------------- specification
InitManagers ==
  /\ EngineIdle
  /\ asm = AsmIdle
  /\ FlowsIdle
  /\ pure = PureIdle
  /\ run = RunIdle
  /\ mgr \in { TempInit, ProcInit }

NextManagers ==
  \/ \E p \in Paths : TempCreate(p)
  \/ \E p \in Paths : TempWritten(p)
  \/ \E p \in Paths : TempCreateReturns(p)
  \/ \E p \in Paths : TempCleanup(p)
  \/ TempCleanupAll
  \/ TempUnlinkSettles
  \/ TempCleanupAllReturns
  \/ \E p \in Procs : ProcTrack(p)
  \/ \E p \in Procs : ProcExits(p)
  \/ \E p \in Procs : ProcExitedCallback(p)
  \/ \E p \in Procs : ProcKill(p)
  \/ ProcKillAll

SpecManagers == InitManagers /\ [][NextManagers]_vars

\* ========================================================= spawn helpers
\* spawnWithTimeout and pipeProcesses of spawn.ts.  A call spawns its
\* children, arms the timer and awaits Promise.all over the children's
\* exits and output streams; the children exit, the wall clock advances and
\* the timer callback runs in any order the event loop allows, and the
\* call goes on when everything it awaits has settled.

\* ------------------------------------------------------------- bounds
\* the timeout option, in ticks of the wall clock
MaxTimeout == 2

\* exit codes of a command that ends by itself
OwnExitCodes == { 0, 1 }
\* what proc.exited gives for a child ended by proc.kill()
KilledCode == 143

\* the children of a call
Kids(fn) == IF fn = "pipeProcesses" THEN { "source", "sink" } ELSE { "cmd" }

Running == [ state |-> "running", code |-> Null, by |-> "none", at |-> 0 ]

RunCalls ==
  { [ fn |-> f, pc |-> "call", timeout |-> t, elapsed |-> 0,
      children |-> [ k \in Kids(f) |-> Running ],
      timer |-> "none", timedOut |-> FALSE, atFire |-> {},
      result |-> [ kind |-> "none" ] ] :
      f \in { "spawnWithTimeout", "pipeProcesses" }, t \in 1..MaxTimeout }

\* Bun.spawn, processManager.track, setTimeout, up to the await
RunCall ==
  /\ run.fn # "none"
  /\ run.pc = "call"
  /\ run' = [ run EXCEPT !.pc = "awaiting", !.timer = "armed" ]
  /\ UNCHANGED << engineVars, asm, flowVars, pure, mgr >>

\* the wall clock advances while the call awaits
RunTick ==
  /\ run.fn # "none"
  /\ run.pc = "awaiting"
  /\ run.elapsed < run.timeout
  /\ run' = [ run EXCEPT !.elapsed = @ + 1 ]
  /\ UNCHANGED << engineVars, asm, flowVars, pure, mgr >>

\* a child ends by itself and its streams close
RunChildExits ==
  /\ run.fn # "none"
  /\ run.pc = "awaiting"
  /\ \E k \in Kids(run.fn), code \in OwnExitCodes :
       /\ run.children[k].state = "running"
       /\ run' = [ run EXCEPT !.children[k] =
                     [ state |-> "exited", code |-> code, by |-> "self",
                       at |-> run.elapsed ] ]
  /\ UNCHANGED << engineVars, asm, flowVars, pure, mgr >>

\* the timer callback of pipeProcesses, short of sinkProc.kill()
KilledBySourceOnly(fn) == Kids(fn) \ { "sink" }

\* the children the timer callback calls kill() on
KilledByTimer(fn) == Kids(fn)

\* proc.kill() on each child of ks: a running child ends, a dead one is
\* left as it is
KillKids(children, ks, now) ==
  [ k \in DOMAIN children |->
      IF k \in ks /\ children[k].state = "running"
      THEN [ state |-> "exited", code |-> KilledCode, by |-> "kill", at |-> now ]
      ELSE children[k] ]

\* the setTimeout callback: it runs once the timeout has elapsed, unless
\* clearTimeout came first
RunTimerFires ==
  /\ run.fn # "none"
  /\ run.timer = "armed"
  /\ run.elapsed >= run.timeout
  /\ run' = [ run EXCEPT
       !.timer = "fired",
       !.timedOut = TRUE,
       !.atFire = { k \in Kids(run.fn) : run.children[k].state = "running" },
       !.children = KillKids(@, KilledByTimer(run.fn), run.elapsed) ]
  /\ UNCHANGED << engineVars, asm, flowVars, pure, mgr >>

\* stdout of the call: the text of the child that was read to its end
StdoutOf(child) == IF child.by = "kill" THEN "cut short" ELSE "complete"

\* the continuation of the await: clearTimeout and the result
RunReturns ==
  /\ run.fn # "none"
  /\ run.pc = "awaiting"
  /\ \A k \in Kids(run.fn) : run.children[k].state = "exited"
  /\ run' = [ run EXCEPT
       !.pc = "returned",
       !.timer = IF @ = "armed" THEN "cleared" ELSE @,
       !.result =
         IF run.fn = "pipeProcesses"
         THEN [ kind |-> "PipeResult",
                exitCode |-> run.children["sink"].code,
                sourceExitCode |-> run.children["source"].code,
                stdout |-> StdoutOf(run.children["sink"]),
                timedOut |-> run.timedOut ]
         ELSE [ kind |-> "SpawnResult",
                exitCode |-> run.children["cmd"].code,
                stdout |-> StdoutOf(run.children["cmd"]),
                timedOut |-> run.timedOut ] ]
  /\ UNCHANGED << engineVars, asm, flowVars, pure, mgr >>

\* the catch branch: reading a stream has failed; clearTimeout, in
\* pipeProcesses kill() on both children, and the error is thrown on
RunThrows ==
  /\ run.fn # "none"
  /\ run.pc = "awaiting"
  /\ run' = [ run EXCEPT
       !.pc = "threw",
       !.timer = IF @ = "armed" THEN "cleared" ELSE @,
       !.children = IF run.fn = "pipeProcesses"
                    THEN KillKids(@, Kids(run.fn), run.elapsed) ELSE @ ]
  /\ UNCHANGED << engineVars, asm, flowVars, pure, mgr >>

\* ------------------------------------------------------- specification
InitSpawn ==
  /\ EngineIdle
  /\ asm = AsmIdle
  /\ FlowsIdle
  /\ pure = PureIdle
  /\ mgr = MgrIdle
  /\ run \in RunCalls

NextSpawn ==
  \/ RunCall
  \/ RunTick
  \/ RunChildExits
  \/ RunTimerFires
  \/ RunReturns
  \/ RunThrows

SpecSpawn == InitSpawn /\ [][NextSpawn]_vars

\* ======================================================== properties
W == MAX_RESULTS_DISPLAY
IsAuto == entry = "autoRefineSearch"
IsBS == entry = "binarySearchDistance"
NProbes == Len(DISTANCE_THRESHOLDS)
Min(a, b) == IF a < b THEN a ELSE b
CallOk(c) == c.event = "close" /\ c.code = 0
\* primitive calls issued so far: the settled ones and the one in flight
Issued == Len(calls) + (IF pending = NoCall THEN 0 ELSE 1)
Exhausted == outcome \in {"CouldNotFind", "MaxAttempts"}
BracketingEntered == bs # BSIdle

\* C1: in a refinement run (with a budget of at least one attempt, so that
\* the first probe is made) whose first probe distance yields a count c with
\* 1 <= c <= W, exactly one primitive call is ever issued, and once it has
\* settled successfully the run is over with that call's results handed to
\* display once, under the first probe distance as cutoff.
C1_FirstProbeInWindow ==
  (IsAuto /\ maxAttempts >= 1 /\ stubCount[1] \in 1..W) =>
    /\ Issued <= 1
    /\ pc # "start" => Issued = 1
    /\ (Len(calls) = 1 /\ CallOk(calls[1])) =>
         /\ pc = "done" /\ outcome = "Found" /\ pending = NoCall
         /\ displayed = << [ cutoff |-> DISTANCE_THRESHOLDS[1],
                             count |-> stubCount[1], call |-> 1 ] >>

C1_Witness ==
  /\ IsAuto /\ stubCount[1] = W /\ stubCount[2] = 0
  /\ pc = "done" /\ Len(calls) = 1 /\ Len(displayed) = 1

\* C2 (as claimed): in a refinement run where probe p1 is reached and yields
\* an in-window count c1 < W and the next probe p2 yields a count > W, the
\* run has, when it returns, entered binarySearchDistance on the bracket
\* [p1, p2], every later primitive call used a cutoff inside [p1, p2], and a
\* midpoint with a count in [OPTIMAL_RESULT_MIN, W] was the last call.
C2_BracketBetweenProbes ==
  \A i \in 1..(NProbes - 1) :
    ( /\ IsAuto /\ pc = "done"
      /\ i + 1 <= maxAttempts
      /\ \A j \in 1..(i - 1) : stubCount[j] = 0
      /\ stubCount[i] \in 1..(W - 1)
      /\ stubCount[i + 1] > W )
    => /\ bs.minDistance = DISTANCE_THRESHOLDS[i]
       /\ bs.maxDistance = DISTANCE_THRESHOLDS[i + 1]
       /\ \A k \in (i + 2)..Len(calls) :
            /\ calls[k].cutoff >= DISTANCE_THRESHOLDS[i]
            /\ calls[k].cutoff <= DISTANCE_THRESHOLDS[i + 1]
            /\ (calls[k].kind = "mid" /\ calls[k].count \in OPTIMAL_RESULT_MIN..W)
                 => k = Len(calls)

\* C3: in a refinement run the number of primitive calls issued never
\* exceeds maxAttempts; with maxAttempts = 2 and the first three probes all
\* too broad the run ends after exactly 2 calls, exhausted, with nothing
\* displayed and no fallback call.
C3_CallBudget ==
  IsAuto =>
    /\ Issued <= maxAttempts
    /\ ( /\ maxAttempts = 2 /\ pc = "done"
         /\ \A i \in 1..3 : stubCount[i] > W )
       => /\ Len(calls) = 2
          /\ \A k \in 1..2 : calls[k].kind = "probe"
          /\ outcome = "MaxAttempts"
          /\ displayed = << >>

C3_Witness ==
  /\ IsAuto /\ maxAttempts = 2 /\ pc = "done"
  /\ \A i \in 1..NProbes : stubCount[i] > W
  /\ Len(calls) = 2 /\ outcome = "MaxAttempts"

\* C4: in a refinement run where every probe distance yields 0 results the
\* calls are the probe distances in ascending order, one each, and a run
\* that returns has issued exactly min(len(probes), maxAttempts) of them,
\* ends exhausted (the 'could not find' message when the probes ran out, the
\* 'max attempts' message when the budget ran out first) and has displayed
\* nothing.
C4_AllProbesEmpty ==
  (IsAuto /\ \A i \in 1..NProbes : stubCount[i] = 0) =>
    /\ Len(calls) <= NProbes
    /\ \A k \in 1..Len(calls) :
         calls[k].cutoff = DISTANCE_THRESHOLDS[k] /\ calls[k].kind = "probe"
    /\ displayed = << >>
    /\ pc = "done" =>
         /\ Len(calls) = Min(NProbes, maxAttempts)
         /\ outcome = IF maxAttempts >= NProbes THEN "CouldNotFind" ELSE "MaxAttempts"

C4_Witness ==
  /\ IsAuto /\ \A i \in 1..NProbes : stubCount[i] = 0
  /\ maxAttempts = AUTO_REFINE_MAX_ATTEMPTS
  /\ pc = "done" /\ Len(calls) = NProbes /\ outcome = "CouldNotFind"

C6_FailurePropagates ==
  /\ \A k \in 1..Len(calls) :
       ~CallOk(calls[k]) =>
         /\ k = Len(calls)
         /\ pc = "rejected"
         /\ pending = NoCall
         /\ displayed = << >>
         /\ outcome = "none" /\ bsResult = "none"
  /\ pc = "rejected" => (Len(calls) >= 1 /\ ~CallOk(calls[Len(calls)]))

C6_Witness ==
  /\ IsAuto /\ pc = "rejected" /\ Len(calls) = 3
  /\ calls[3].event = "close" /\ calls[3].code # 0

\* C7: in binarySearchDistance a midpoint whose count c satisfies
\* OPTIMAL_RESULT_MIN <= c <= W is the last primitive call: that call's
\* results are what is displayed, under that midpoint as cutoff, true is
\* returned and no call is in flight.
C7_StopAtOptimalMidpoint ==
  \A k \in 1..Len(calls) :
    ( /\ calls[k].by = "binarySearchDistance" /\ calls[k].kind = "mid"
      /\ CallOk(calls[k]) /\ calls[k].count \in OPTIMAL_RESULT_MIN..W )
    => /\ k = Len(calls)
       /\ pending = NoCall
       /\ bsResult = "true"
       /\ displayed = << [ cutoff |-> calls[k].cutoff, count |-> calls[k].count,
                           call |-> k ] >>

C7_Witness ==
  /\ IsBS /\ pc = "done" /\ bsResult = "true" /\ Len(calls) = 2
  /\ calls[1].count = 1
  /\ calls[2].kind = "mid" /\ calls[2].count = OPTIMAL_RESULT_MIN

\* the iterations of the while loop that went on to the loop head again:
\* the settled midpoints that were neither accepted at once nor failed
Narrowings ==
  Cardinality({ k \in 1..Len(calls) :
                  /\ calls[k].by = "binarySearchDistance" /\ calls[k].kind = "mid"
                  /\ CallOk(calls[k])
                  /\ ~(calls[k].count \in OPTIMAL_RESULT_MIN..W) })

\* ceil(log2(w / p)) for positive integers w and p: the least k, possibly
\* negative, with w <= p * 2^k
CeilLog2Ratio(w, p) ==
  LET Fits(k) == IF k >= 0 THEN w <= p * 2^k ELSE w * 2^(0 - k) <= p
  IN  CHOOSE k \in (0 - LogRange)..LogRange :
        Fits(k) /\ \A j \in (0 - LogRange)..(k - 1) : ~Fits(j)

EntryWidth == bs.maxDistance - bs.minDistance

C9_NoCutoffTwice ==
  LET cutoffs == [ k \in 1..Issued |->
                     IF k <= Len(calls) THEN calls[k].cutoff ELSE pending.cutoff ]
  IN  \A j \in 1..Issued : \A k \in 1..Issued :
        j # k => cutoffs[j] # cutoffs[k]

\* C10: when binarySearchDistance returns, it returns false exactly when no
\* midpoint was in-window (in particular when remainingAttempts is 0), and
\* when it returns true it has displayed, once, a non-empty in-window list
\* under the recorded best distance with the recorded best count.
C10_BestOrNotFound ==
  LET inWindowMids ==
        { k \in 1..Len(calls) :
            /\ calls[k].by = "binarySearchDistance" /\ calls[k].kind = "mid"
            /\ CallOk(calls[k]) /\ calls[k].count \in 1..W }
  IN  /\ (IsBS /\ pc = "done") => bsResult \in {"true", "false"}
      /\ bsResult = "false" => (inWindowMids = {} /\ displayed = << >>)
      /\ bsResult = "true" =>
           /\ inWindowMids # {}
           /\ Len(displayed) = 1
           /\ displayed[1].count \in 1..W
           /\ displayed[1].count = bs.bestCount
           /\ displayed[1].cutoff = bs.bestDistance
           /\ \E k \in inWindowMids :
                calls[k].cutoff = bs.bestDistance /\ calls[k].count = bs.bestCount
      /\ (IsBS /\ pc = "done" /\ bs.remainingAttempts = 0) => bsResult = "false"

C10_Witness ==
  /\ IsBS /\ pc = "done" /\ bsResult = "true"
  /\ calls[Len(calls)].kind = "best"
  /\ bs.attempts = bs.remainingAttempts
  /\ bs.right - bs.left > BINARY_SEARCH_PRECISION

\* C11 (as claimed): a call of binarySearchDistance with left >= right, and a
\* call of autoRefineSearch with maxAttempts <= 0, raises an error: the call
\* ends rejected, without a return value or an exhausted outcome.
C11_MalformedInputRaises ==
  /\ (IsBS /\ bs.minDistance >= bs.maxDistance /\ pc # "start")
       => (pc = "rejected" /\ bsResult = "none")
  /\ (IsAuto /\ maxAttempts <= 0 /\ pc # "start")
       => (pc = "rejected" /\ outcome = "none")

\* ------------------------------------------------- assembler properties
SortedByDistance(rs) ==
  \A i \in 1..Len(rs), j \in 1..Len(rs) :
    i < j => rs[i].distance <= rs[j].distance

\* the matches of rs, each as often as it occurs, without their entry
Occurrences(rs, ln, d) ==
  Cardinality({ i \in 1..Len(rs) : rs[i].lineNumber = ln /\ rs[i].distance = d })

SameMatches(rs, qs) ==
  \A ln \in 0..MaxLineNumber, d \in AsmDistances :
    Occurrences(rs, ln, d) = Occurrences(qs, ln, d)

HasUnmatched(rs, entries) ==
  \E i \in 1..Len(rs) : ~TruthyEntry(EntryAt(entries, rs[i].lineNumber))

\* C15: for every list of raw matches and every entry list,
\* sortByDistance(attachEntries(matches, entries)) is sorted non-decreasing
\* by distance and holds exactly the input's matches, as many as the input:
\* a match whose lineNumber has an entry carries that entry, and one whose
\* lineNumber has none is kept with a null entry.
C15_AssembledSortedNoneDropped ==
  (asm.impl = "functions" /\ asm.pc \in {"once", "twice"}) =>
    /\ Len(asm.first) = Len(asm.given)
    /\ SortedByDistance(asm.first)
    /\ SameMatches(asm.first, asm.given)
    /\ \A i \in 1..Len(asm.first) :
         LET e == EntryAt(asm.entries, asm.first[i].lineNumber)
         IN asm.first[i].entry = (IF TruthyEntry(e) THEN e ELSE JsNull)

\* the functions have assembled a list that had to be reordered and that
\* holds both a match with an entry and a match without one
C15_Witness ==
  /\ asm.impl = "functions"
  /\ asm.pc = "once"
  /\ ~SortedByDistance(asm.given)
  /\ HasUnmatched(asm.given, asm.entries)
  /\ \E i \in 1..Len(asm.first) : asm.first[i].entry.kind = "entry"
  /\ \E i \in 1..Len(asm.first) : asm.first[i].entry = JsNull

\* C16 (as claimed): the result assembler is a pure function: after it has
\* run, the caller's array holds the same result objects in the same order
\* with the same entry fields as before, and a second application to the
\* same array and entry list returns what the first returned.
C16_AssemblerPure ==
  /\ asm.pc \in {"once", "twice"} => asm.results = asm.given
  /\ asm.pc = "twice" => asm.second = asm.first

\* ------------------------------------------------------ flow properties
IsInteractive == cli.program = "interactive-search"
IsPlain == cli.program \in {"llmgrep", "llmgrep-pipe"}
Ended == cli.pc \in {"done", "rejected"}
SearchInFlight == proc.what \in {"search", "pipe"}
SettledOk(c) == c.event = "close" /\ c.code = 0 /\ ~c.timedOut
ModeArgs(args) == { j \in 1..Len(args) : args[j].flag \in {"-m", "--top-k"} }
HasArg(args, flag, value) ==
  \E j \in 1..Len(args) : args[j] = [ flag |-> flag, value |-> value ]

C13_DefaultIsMaxDistance ==
  (IsInteractive /\ cli.argv.threshold.flag = "none" /\ Len(searches) >= 1) =>
    /\ HasArg(searches[1].args, "-m", DEFAULT_DISTANCE)
    /\ \A j \in 1..Len(searches[1].args) : searches[1].args[j].flag # "--top-k"

\* C14: the argument list of every primitive call holds exactly one of
\* '-m' and '--top-k': '-m' with the maxDistance of the call whenever that
\* is defined, whether or not topK is set too, and '--top-k' otherwise.
C14_ExactlyOneMode ==
  \A n \in 1..Len(searches) :
    /\ Cardinality(ModeArgs(searches[n].args)) = 1
    /\ searches[n].maxDistance # Null =>
         HasArg(searches[n].args, "-m", searches[n].maxDistance)
    /\ searches[n].maxDistance = Null =>
         \E j \in ModeArgs(searches[n].args) : searches[n].args[j].flag = "--top-k"

\* a call was issued with both topK and maxDistance set by the command line
C14_Witness ==
  /\ Len(searches) >= 1
  /\ cli.argv.topK # Null
  /\ searches[1].topK = cli.argv.topK
  /\ searches[1].maxDistance # Null
  /\ HasArg(searches[1].args, "-m", searches[1].maxDistance)

\* C17 (as claimed): in a run of interactive-search whose date filter
\* removed at least one entry, every result handed to the display is joined
\* to the entry at position lineNumber of the sequence the corpus file was
\* written from, the entry whose flattened text is the matched corpus line.
\* (The extractor's lines are all entries here, so that the corpus and the
\* extracted entries do correspond.)
C17_FilteredJoinIsByCorpusPosition ==
  ( /\ IsInteractive
    /\ \A i \in 1..Len(cli.emitted) : cli.emitted[i].kind = "entry"
    /\ cli.filtered
    /\ cli.report = "results" ) =>
    \A i \in 1..Len(cli.shown) :
      /\ cli.shown[i].entry = EntryAt(cli.allEntries, cli.shown[i].lineNumber)
      /\ Flatten(cli.shown[i].entry.text) = cli.corpus[cli.shown[i].lineNumber + 1]

\* C18 (as claimed): once extractMetadata has resolved, whatever lines the
\* extractor emitted, the corpus file has exactly entries.length lines and
\* line i is the flattened text of entries[i].
C18_CorpusAlignedWithEntries ==
  (IsInteractive /\ cli.extracted = "ok") =>
    /\ Len(cli.corpus) = Len(cli.allEntries)
    /\ \A i \in 1..Len(cli.corpus) :
         i \in 1..Len(cli.allEntries) =>
           cli.corpus[i] = Flatten(cli.allEntries[i].text)

\* C19: a plain llmgrep run that has ended has exit code 0 when the search
\* closed with code 0 in time (with or without output) and when no entry is
\* in the date range, and a non-zero exit code when the options are
\* invalid, the extraction failed, the primitive could not be spawned or
\* closed with another code, or the timeout fired.
C19_ExitCodes ==
  (IsPlain /\ Ended) =>
    LET valid == validateSearchOptions(parseArgs(cli.argv, NoDefaults))
        searched == Len(searches) = 1
    IN /\ ~valid => cli.exitCode # 0
       /\ cli.extracted = "failed" => cli.exitCode # 0
       /\ (searched /\ ~SettledOk(searches[1])) => cli.exitCode # 0
       /\ (searched /\ SettledOk(searches[1]) /\ cli.extracted = "ok") =>
            (cli.exitCode = 0 /\ cli.report \in {"results", "noResults"})
       /\ (valid /\ cli.extracted = "ok" /\ cli.program = "llmgrep"
             /\ Len(cli.entries) = 0) =>
            (cli.exitCode = 0 /\ cli.report = "noEntries" /\ ~searched)

\* a run ended by the timeout, one ended by a child that a signal killed,
\* and one that printed results
C19_Witness ==
  /\ IsPlain
  /\ Ended
  /\ Len(searches) = 1
  /\ \/ searches[1].timedOut /\ cli.exitCode = 1
     \/ searches[1].code = Null /\ searches[1].event = "close"
          /\ ~searches[1].timedOut /\ cli.exitCode = 1
     \/ cli.report = "results" /\ cli.exitCode = 0

\* C20 (as claimed): no primitive call is left running past the timeout:
\* when the timeout has elapsed the call has been terminated and the run
\* is no longer waiting for it.
C20_NoCallOutlivesTimeout ==
  SearchInFlight => proc.elapsed <= TimeoutTicks

\* main has returned or rejected and nothing is awaited any more (a run that
\* has handed results to displayResultsAndCopy still waits for the prompt)
MainOver == cli.pc = "rejected" \/ (cli.pc = "done" /\ cli.report # "results")

\* C21 (as claimed): in a run of interactive-search the corpus temp file
\* exists while a primitive call is in flight, and when the run is over,
\* by a no-results return, a primitive failure or SIGINT/SIGTERM, the file
\* has been removed, exactly once.
C21_TempFileRemovedOnce ==
  IsInteractive =>
    /\ SearchInFlight => cli.tempFile = "exists"
    /\ (MainOver /\ cli.tempFile # "none") =>
         (cli.tempFile = "removed" /\ cli.unlinks = 1)

\* C29: the interactive flow hands at most limit results to the display:
\* the list shown has min(limit, n) of the n results, in non-decreasing
\* order of distance, and no result left out is nearer than one shown.
C29_ShownIsNearestPrefix ==
  (IsInteractive /\ cli.report = "results") =>
    LET limit == Whole(cli.options.limit)
        n == Len(cli.results)
        shownLines == { cli.shown[i].lineNumber : i \in 1..Len(cli.shown) }
    IN /\ Len(cli.shown) = (IF limit < n THEN limit ELSE n)
       /\ \A i \in 1..Len(cli.shown), j \in 1..Len(cli.shown) :
            i < j => cli.shown[i].distance <= cli.shown[j].distance
       /\ \A i \in 1..Len(cli.shown) :
            \E j \in 1..n :
              /\ cli.results[j].lineNumber = cli.shown[i].lineNumber
              /\ cli.results[j].distance = cli.shown[i].distance
       /\ \A j \in 1..n :
            cli.results[j].lineNumber \notin shownLines =>
              \A i \in 1..Len(cli.shown) :
                cli.shown[i].distance <= cli.results[j].distance

\* more results than the limit, at different distances, and the farther
\* one printed first by the primitive
C29_Witness ==
  /\ IsInteractive
  /\ cli.report = "results"
  /\ cli.argv.limit # Null
  /\ Len(cli.results) > Len(cli.shown)
  /\ cli.results[1].distance > cli.shown[1].distance

\* ----------------------------------------------------- library properties
Returned(fn) == pure.fn = fn /\ pure.pc = "returned"

\* the shape 'file:<line>::<n> (<distance>)' at the start of a line, by the
\* positions of its parts: a is the first colon, b the second, c the blank
\* after <n>, d the opening and e the closing parenthesis
ShapeAt(line, a, b, c, d, e) ==
  /\ a > 1 /\ At(line, a) = ":"
  /\ \A i \in 1..(a - 1) : line[i] # ":"
  /\ b > a + 1 /\ At(line, b) = ":" /\ At(line, b + 1) = ":"
  /\ \A i \in (a + 1)..(b - 1) : line[i] \in DigitSet
  /\ c > b + 2
  /\ \A i \in (b + 2)..(c - 1) : line[i] \in DigitSet
  /\ d > c /\ At(line, d) = "("
  /\ \A i \in c..(d - 1) : line[i] \in Blanks
  /\ e > d + 1 /\ At(line, e) = ")"
  /\ \A i \in (d + 1)..(e - 1) : line[i] \in DigitSet \cup {"."}

HasShape(line) ==
  \E a \in 1..Len(line) : At(line, a) = ":" /\
    \E b \in a..Len(line) : At(line, b) = ":" /\
      \E d \in b..Len(line) : At(line, d) = "(" /\
        \E c \in b..d, e \in d..Len(line) : ShapeAt(line, a, b, c, d, e)

\* the number a <line> field of digits names
LineField(line) ==
  LET a == CHOOSE i \in 1..Len(line) : line[i] = ":" /\ \A k \in 1..(i - 1) : line[k] # ":"
      b == CHOOSE i \in (a + 1)..Len(line) :
             line[i] = ":" /\ \A k \in (a + 1)..(i - 1) : line[k] # ":"
      Pow10[n \in 0..Len(line)] == IF n = 0 THEN 1 ELSE 10 * Pow10[n - 1]
      Sum[i \in a..(b - 1)] ==
        IF i = a THEN 0 ELSE Sum[i - 1] + DigitValue(line[i]) * Pow10[b - 1 - i]
  IN Sum[b - 1]

\* the distances the well-formed lines of OutputLines carry, by line number
KnownDistance(lineNumber) ==
  CASE lineNumber = 1 -> 10 * Hundredth
    [] lineNumber = 12 -> 25 * Hundredth
    [] lineNumber = 2 -> 40 * Hundredth
    [] lineNumber = 3 -> NaN

\* C22: parseSearchOutput returns, for every output, one result per line
\* that has the shape 'file:<line>::<n> (<distance>)', in the order of the
\* lines, with the line number and the distance of that line; every other
\* line is skipped and the empty output gives the empty list.
C22_ParsesShapedLinesInOrder ==
  pure.fn = "parseSearchOutput" =>
    /\ pure.pc \in {"call", "returned"}
    /\ pure.pc = "returned" =>
         LET shaped == SelectSeq(pure.lines, HasShape)
         IN /\ Len(pure.output) = Len(shaped)
            /\ \A i \in 1..Len(shaped) :
                 /\ pure.output[i].lineNumber = LineField(shaped[i])
                 /\ pure.output[i].distance = KnownDistance(LineField(shaped[i]))
            /\ pure.input = << >> => pure.output = << >>

\* a malformed line between two well-formed ones, the later line first
C22_Witness ==
  /\ Returned("parseSearchOutput")
  /\ Len(pure.lines) = 2
  /\ Len(pure.output) = 1
  /\ ~ HasShape(pure.lines[1])
  /\ pure.output[1].lineNumber = 12

\* the entries of es whose position satisfies Keep, in order
KeptByPosition(es, Keep(_)) ==
  LET F[i \in 0..Len(es)] ==
        IF i = 0 THEN << >>
        ELSE IF Keep(i) THEN Append(F[i - 1], es[i]) ELSE F[i - 1]
  IN F[Len(es)]

\* C23: filterByDateRange returns, in input order, every entry without a
\* timestamp and exactly those timestamped entries t with
\* afterDate <= t <= beforeDate, each bound applied only when given; with
\* neither bound it returns all entries.
C23_FilterKeepsExactlyRange ==
  Returned("filterByDateRange") =>
    LET es == pure.input.entries
        a == pure.input.afterDate
        b == pure.input.beforeDate
        InRange(i) ==
          /\ es[i].timestamp \in 1..3
          /\ a # NoDate => a <= es[i].timestamp
          /\ b # NoDate => es[i].timestamp <= b
    IN /\ pure.output =
            KeptByPosition(es, LAMBDA i : es[i].timestamp = NoTs \/ InRange(i))
       /\ (a = NoDate /\ b = NoDate) => pure.output = es

\* C24: validateSearchOptions throws exactly when a present option is
\* invalid: topK or limit not a positive whole number, context not a whole
\* number >= 0, maxDistance NaN or outside [0, 1], or afterDate >=
\* beforeDate; it accepts every other set of options.
PositiveWholes == { k * One : k \in 1..3 }
C24_ThrowsIffInvalid ==
  (pure.fn = "validateSearchOptions" /\ pure.pc # "call") =>
    LET o == pure.input
        invalid ==
          \/ o.topK # Null /\ o.topK \notin PositiveWholes
          \/ o.maxDistance # Null /\ o.maxDistance \notin 0..One
          \/ o.context # Null /\ o.context \notin (PositiveWholes \cup {0})
          \/ o.limit # Null /\ o.limit \notin PositiveWholes
          \/ o.afterDate # NoDate /\ o.beforeDate # NoDate
               /\ o.afterDate >= o.beforeDate
    IN pure.pc = "threw" <=> invalid

\* equal dates are refused while every other option is valid
C24_Witness ==
  /\ pure.fn = "validateSearchOptions"
  /\ pure.pc = "threw"
  /\ pure.input.afterDate = 2 /\ pure.input.beforeDate = 2
  /\ pure.input.topK = One /\ pure.input.limit = One
  /\ pure.input.context = 0 /\ pure.input.maxDistance = One

\* C30: for every entry count n >= 0 calculateTimeout returns
\* max(120000, ceil(n / 1000) * 5000) ms: never below two minutes, and not
\* smaller for a larger corpus.
C30_TimeoutScales ==
  Returned("calculateTimeout") =>
    LET n == pure.input[1]
        m == pure.input[2]
        \* the least count of thousands that covers n
        thousands == CHOOSE q \in 0..(MaxThousands + 2) :
                       q * 1000 >= n /\ (q = 0 \/ (q - 1) * 1000 < n)
    IN /\ pure.output[1] >= 120000
       /\ pure.output[1] >= thousands * 5000
       /\ pure.output[1] \in { 120000, thousands * 5000 }
       /\ n <= m => pure.output[1] <= pure.output[2]

\* a corpus just over 24000 entries gets more than the minimum, and more
\* than the corpus of exactly 24000
C30_Witness ==
  /\ Returned("calculateTimeout")
  /\ pure.input = << 24000, 24001 >>
  /\ pure.output = << 120000, 125000 >>

\* ----------------------------------------------------- manager properties
IsTemp == mgr.kind = "temp"
IsProc == mgr.kind = "proc"
TempQuiet ==
  /\ mgr.ops = {}
  /\ \A p \in Paths : mgr.creates[p] \in {"none", "returned"}

\* C25: the tracked set of TempFileManager is the set of files created and
\* not yet cleaned up, whenever no call is in flight; and at the return of
\* cleanupAll the tracked set is empty and no file the manager created
\* exists.
C25_TrackedAreTheFilesLeft ==
  IsTemp =>
    /\ TempQuiet => mgr.files = mgr.disk
    /\ mgr.all = "returned" =>
         (mgr.atReturn.files = {} /\ mgr.atReturn.disk = {})

TrackedProcs == { mgr.processes[i] : i \in 1..Len(mgr.processes) }

\* C26: ProcessManager tracks only processes it was given, and a tracked
\* process that is no longer running has its removal pending; right after
\* track(p) the set holds p, right after kill(p) or the exit callback of p
\* it does not, and right after killAll it is empty.
C26_TracksGivenLiveProcesses ==
  IsProc =>
    /\ TrackedProcs \subseteq mgr.given
    /\ \A p \in TrackedProcs : ~ mgr.alive[p] => mgr.handlers[p] > 0
    /\ mgr.last.op = "track" => mgr.last.proc \in TrackedProcs
    /\ mgr.last.op \in {"kill", "exited"} => mgr.last.proc \notin TrackedProcs
    /\ mgr.last.op = "killAll" => TrackedProcs = {}

\* killAll has emptied a set of two processes, one of them dead already
C26_Witness ==
  /\ IsProc
  /\ mgr.last.op = "killAll"
  /\ mgr.given = Procs
  /\ \A p \in Procs : ~ mgr.alive[p] /\ mgr.handlers[p] > 0

\* ------------------------------------------------------- spawn properties
\* C27: a result of spawnWithTimeout has timedOut = true when the command
\* was killed at the timeout, and timedOut = false with the command's own
\* exit code and output when the command exited before the timeout elapsed.
C27_TimedOutIffKilled ==
  (run.fn = "spawnWithTimeout" /\ run.pc = "returned") =>
    LET cmd == run.children["cmd"]
    IN /\ cmd.by = "kill" => run.result.timedOut
       /\ (cmd.by = "self" /\ cmd.at < run.timeout) =>
            /\ ~ run.result.timedOut
            /\ run.result.exitCode = cmd.code
            /\ run.result.stdout = "complete"

\* C28: a result of pipeProcesses carries the sink's exit code as exitCode
\* and the source's as sourceExitCode; and when the timeout elapses with a
\* child still running the callback leaves no child running, and the result
\* has timedOut = true.
C28_PipeCodesAndTimeout ==
  run.fn = "pipeProcesses" =>
    /\ (run.timer = "fired" /\ run.atFire # {}) =>
         \A k \in Kids(run.fn) :
           /\ run.children[k].state = "exited"
           /\ k \in run.atFire => run.children[k].by = "kill"
    /\ run.pc = "returned" =>
         /\ run.result.exitCode = run.children["sink"].code
         /\ run.result.sourceExitCode = run.children["source"].code
         /\ run.atFire # {} => run.result.timedOut

\* the source has failed by itself, the sink was running at the timeout
C28_Witness ==
  /\ run.fn = "pipeProcesses"
  /\ run.pc = "returned"
  /\ run.children["source"].by = "self"
  /\ run.result.sourceExitCode = 1
  /\ run.atFire = { "sink" }
  /\ run.result.exitCode = KilledCode
  /\ run.result.timedOut

\* --------------------------------------- engine properties, continued
NothingRecorded ==
  /\ auto.lastGoodDistance = Null
  /\ auto.lastGoodCount = 0
  /\ ~ BracketingEntered
  /\ \A k \in 1..Len(calls) :
       calls[k].by = "autoRefineSearch" /\ calls[k].kind = "probe"
  /\ pending # NoCall =>
       (pending.by = "autoRefineSearch" /\ pending.kind = "probe")

\* a run that has accepted a probe has displayed that probe's results once,
\* and every probe before it was empty or too broad
AcceptedFirstInWindow ==
  /\ Len(displayed) = 1
  /\ displayed[1].call = Len(calls)
  /\ displayed[1].count \in 1..W
  /\ \A k \in 1..(Len(calls) - 1) : calls[k].count = 0 \/ calls[k].count > W

\* C31 (as claimed): in every state of autoRefineSearch lastGoodDistance is
\* null and lastGoodCount is 0, binarySearchDistance is not entered and no
\* 'using best result' call is made, and every run that is over has ended
\* by accepting the first in-window probe or with the exhausted or
\* max-attempts message.
C31_EveryRunAcceptsOrExhausts ==
  IsAuto =>
    /\ NothingRecorded
    /\ pc \notin {"start", "autoRefineSearch"} =>
         \/ outcome = "Found" /\ AcceptedFirstInWindow
         \/ Exhausted /\ displayed = << >>

\* C31 (amended): the same, for every run that returns; a run in which a
\* primitive call fails is over with the rejection of that call instead.
C31_ReturningRunAcceptsOrExhausts ==
  IsAuto =>
    /\ NothingRecorded
    /\ pc \notin {"start", "autoRefineSearch"} =>
         \/ pc = "done" /\ outcome = "Found" /\ AcceptedFirstInWindow
         \/ pc = "done" /\ Exhausted /\ displayed = << >>
         \/ /\ pc = "rejected" /\ outcome = "none" /\ displayed = << >>
            /\ ~ CallOk(calls[Len(calls)])

\* an in-window count waits behind a too-broad probe and the run goes
\* past both without recording anything
C31_Witness ==
  /\ IsAuto
  /\ pc = "done"
  /\ outcome = "Found"
  /\ Len(calls) = 3
  /\ calls[1].count = 0
  /\ calls[2].count > W
  /\ calls[3].count \in 1..(W - 1)

\* the bounds after the loop body has run on a midpoint with count n
BoundsMoveAsClaimed(n, mid) ==
  /\ (n = 0 \/ n \in 1..(OPTIMAL_RESULT_MIN - 1)) =>
       (bs'.left = mid /\ bs'.right = bs.right)
  /\ n > W => (bs'.right = mid /\ bs'.left = bs.left)
  /\ n \in OPTIMAL_RESULT_MIN..W => (bs'.left = bs.left /\ bs'.right = bs.right)

MidpointSettles ==
  /\ pc = "binarySearchDistance"
  /\ pending # NoCall
  /\ pending.kind = "mid"
  /\ pc' # "rejected"
  /\ Len(calls') = Len(calls) + 1

BracketOrdered ==
  (pc = "binarySearchDistance" /\ pending.kind = "mid") =>
    /\ bs.minDistance <= bs.left
    /\ bs.left < pending.cutoff
    /\ pending.cutoff < bs.right
    /\ bs.right <= bs.maxDistance

BestInsideBracket ==
  bs.bestCount > 0 =>
    (bs.minDistance < bs.bestDistance /\ bs.bestDistance < bs.maxDistance)

\* C32: each iteration of binarySearchDistance moves exactly one bound to
\* mid and leaves the other as it was: left for a count of 0 or a count in
\* the window below OPTIMAL_RESULT_MIN, right for a count above W; at every
\* probe minDistance <= left < mid < right <= maxDistance, and bestDistance,
\* once set, lies strictly between minDistance and maxDistance.
C32_OneBoundMovesToMid ==
  /\ [](BracketOrdered /\ BestInsideBracket)
  /\ [][MidpointSettles =>
          BoundsMoveAsClaimed(calls'[Len(calls')].count, pending.cutoff)]_vars

\* the loop has moved left and then right, and probes a third midpoint
C32_Witness ==
  /\ pc = "binarySearchDistance"
  /\ pending.kind = "mid"
  /\ bs.attempts = 3
  /\ bs.left > bs.minDistance
  /\ bs.right < bs.maxDistance
  /\ bs.bestCount > 0

\* the settled midpoints whose count is in the window
InWindowMids ==
  { k \in 1..Len(calls) :
      calls[k].kind = "mid" /\ CallOk(calls[k]) /\ calls[k].count \in 1..W }

\* the counts the primitive has given do not decrease with the cutoff
MonotoneCounts ==
  \A i \in 1..Len(calls), j \in 1..Len(calls) :
    (CallOk(calls[i]) /\ CallOk(calls[j]) /\ calls[i].cutoff <= calls[j].cutoff)
      => calls[i].count <= calls[j].count

C38_TimerClearedTimedOutOnlyIfRunning ==
  (run.fn # "none" /\ run.pc \in { "returned", "threw" }) =>
    /\ run.timer # "armed"
    /\ (run.pc = "returned" /\ run.result.timedOut) => run.atFire # {}

\* ---------------------------------------- flow properties, continued
\* C35: the interactive flow issues a second search only after a first one
\* that closed with code 0, left main with no result, and was given a
\* cutoff strictly below EXPANDED_DISTANCE; the second is given
\* EXPANDED_DISTANCE, a cutoff strictly wider than the first; after a first
\* call that failed there is no second one.
C35_ExpansionStrictlyWider ==
  (cli.program = "interactive-search" /\ Len(searches) >= 1) =>
    /\ Len(searches) <= 2
    /\ Len(searches) = 2 =>
         /\ CallOk(searches[1])
         /\ searches[1].kept = 0
         /\ ArgValue(searches[1].args, "-m") # Null
         /\ ArgValue(searches[1].args, "-m") < EXPANDED_DISTANCE
         /\ ArgValue(searches[2].args, "-m") = EXPANDED_DISTANCE
         /\ ArgValue(searches[1].args, "-m") < ArgValue(searches[2].args, "-m")

\* ========================================================= index.ts
\* most arguments on the command line of the wrapper
MaxArgs == 2

\* exit codes of the delegated script when it ends by itself
ScriptExitCodes == { 0, 1, 2 }

\* the two entry points of index.ts: async main with process.exitCode, and
\* the top-level script with process.exit
WrapperVersions == { "main", "top-level" }

\* code || 0: a null code and a code of 0 both give 0
CodeOrZero(code) == IF code = Null \/ code = 0 THEN 0 ELSE code

\* args.filter(arg => arg !== '--no-interactive')
FilterArgs(args) == SelectSeq(args, LAMBDA a : a # "--no-interactive")

\* args.includes(flag)
Includes(args, flag) == \E i \in 1..Len(args) : args[i] = flag

\* the wrapper up to the registration of its handlers: the script is chosen
\* and spawned with the filtered arguments; the spawn may fail to start
WrapperMain ==
  /\ cli.program = "index"
  /\ cli.pc = "start"
  /\ \E started \in BOOLEAN :
       proc' = [ what |-> "script",
                 state |-> IF started THEN "running" ELSE "failed",
                 args |-> FilterArgs(cli.args),
                 code |-> Null, signal |-> FALSE ]
  /\ cli' = [ cli EXCEPT
       !.pc = "waiting",
       !.debug = (cli.version = "main" /\ Includes(cli.args, "--debug")),
       !.script = IF Includes(cli.args, "--no-interactive")
                    THEN "search-with-context.ts"
                    ELSE "interactive-search.ts" ]
  /\ UNCHANGED << searches, engineVars, asm, libVars >>

\* proc.on('exit', (code) => ...): the script ends by itself with a code,
\* or is ended by a signal and has a null code
WrapperChildExit ==
  /\ cli.program = "index"
  /\ cli.pc = "waiting"
  /\ proc.state = "running"
  /\ \E ended \in [ code : ScriptExitCodes, signal : {FALSE} ] \cup
                  { [ code |-> Null, signal |-> TRUE ] } :
       /\ proc' = [ proc EXCEPT !.state = "exited", !.code = ended.code,
                                !.signal = ended.signal ]
       /\ cli' = [ cli EXCEPT !.pc = "done",
                              !.exitCode = CodeOrZero(ended.code) ]
  /\ UNCHANGED << searches, engineVars, asm, libVars >>

\* proc.on('error', ...) of main sets process.exitCode = 1; the top-level
\* script has no 'error' listener and the event is thrown, which ends the
\* process with code 1
WrapperChildError ==
  /\ cli.program = "index"
  /\ cli.pc = "waiting"
  /\ proc.state = "failed"
  /\ cli' = [ cli EXCEPT
       !.pc = "done",
       !.exitCode = 1,
       !.report = IF cli.version = "main" THEN "Failed to start search"
                                           ELSE "uncaught" ]
  /\ UNCHANGED << proc, searches, engineVars, asm, libVars >>

InitWrapper ==
  /\ EngineIdle
  /\ asm = AsmIdle
  /\ LibIdle
  /\ searches = << >>
  /\ proc = ProcIdle
  /\ \E version \in WrapperVersions,
        args \in SeqsUpTo({ "--no-interactive", "--debug", "query" }, MaxArgs) :
       cli = [ program |-> "index", version |-> version, pc |-> "start",
               args |-> args, debug |-> FALSE, script |-> "none",
               report |-> "none", exitCode |-> 0 ]

NextWrapper ==
  \/ WrapperMain
  \/ WrapperChildExit
  \/ WrapperChildError

SpecWrapper == InitWrapper /\ [][NextWrapper]_vars

\* the delegated script has failed: it could not be started, it ended with
\* a code other than 0, or it was ended by a signal
ScriptFailed ==
  \/ proc.state = "failed"
  \/ proc.state = "exited" /\ (proc.signal \/ proc.code # 0)

\* C36: the wrapper ends with a non-zero exit code whenever the delegated
\* script has failed, a script ended by a signal (null exit code) included.
C36_FailureGivesNonZeroExit ==
  (cli.program = "index" /\ cli.pc = "done" /\ ScriptFailed) => cli.exitCode # 0

\* ============================================ displayResultsAndCopy
\* The selection dialogue of displayResultsAndCopy, in interactive-search.ts
\* and in part_004: the choices offered, the answer of the prompt, and the
\* calls of extractConversation and copyToClipboard that follow.  asm holds
\* one invocation; asm.results is the list the choices are built from
\* (results in interactive-search.ts, resultsWithEntries in part_004).
\* Every caller passes tempFile.  The 'Go Broader' answer leaves the
\* dialogue for a new search, which ends in a further invocation or in
\* handleTooManyResults.

\* ------------------------------------------------------------- bounds
\* longest result list handed to the dialogue
MaxSelectResults == 2
\* longest entry list
MaxSelectEntries == 2

\* entries with a working directory, with an empty one, and a null line
SelectEntryValues ==
  { [ kind |-> "entry", id |-> "A", cwd |-> "/p/a" ],
    [ kind |-> "entry", id |-> "B", cwd |-> "" ],
    JsNull }

\* Object.keys(groupedByCwd).sort()
CwdOrder == << "/p/a", "Unknown" >>

\* result.entry?.cwd || 'Unknown'
CwdOf(result) ==
  IF TruthyEntry(result.entry) /\ result.entry.cwd # ""
    THEN result.entry.cwd ELSE "Unknown"

CancelChoice == [ value |-> -1, disabled |-> FALSE ]
HeaderChoice == [ value |-> -2, disabled |-> TRUE ]
GoBroaderChoice == [ value |-> -3, disabled |-> FALSE ]

\* variant: the position counted from 1
ChoiceValueOneBased(i) == i

\* the value of the choice of the i-th result: its array index
ChoiceValue(i) == i - 1

\* the choices of the results in the positions of ps, in list order
RECURSIVE ItemChoices(_, _)
ItemChoices(ps, from) ==
  IF from > Len(ps) THEN << >>
  ELSE << [ value |-> ChoiceValue(ps[from]), disabled |-> FALSE ] >>
         \o ItemChoices(ps, from + 1)

\* the positions of results that satisfy Keep, in list order
PositionsOf(results, Keep(_)) ==
  SelectSeq([ i \in 1..Len(results) |-> i ], LAMBDA i : Keep(results[i]))

\* part_004: per working directory a disabled header and a choice for each
\* of its results that has an entry
RECURSIVE GroupedChoices(_, _)
GroupedChoices(results, g) ==
  IF g > Len(CwdOrder) THEN << >>
  ELSE LET members == PositionsOf(results, LAMBDA r : CwdOf(r) = CwdOrder[g])
           items == PositionsOf(results,
                      LAMBDA r : CwdOf(r) = CwdOrder[g] /\ TruthyEntry(r.entry))
       IN ( IF members = << >> THEN << >>
            ELSE << HeaderChoice >> \o ItemChoices(items, 1) )
          \o GroupedChoices(results, g + 1)

\* resultsWithEntries.length < MAX_RESULTS_DISPLAY && tempFile &&
\* currentDistance && currentDistance < 0.6
GoBroaderOffered(n, currentDistance) ==
  /\ n < MAX_RESULTS_DISPLAY
  /\ Truthy(currentDistance)
  /\ currentDistance < 60 * Hundredth

\* the choices handed to select()
BuildChoices(impl, results, currentDistance) ==
  IF impl = "interactive-search.ts"
    THEN ItemChoices([ i \in 1..Len(results) |-> i ], 1) \o << CancelChoice >>
    ELSE GroupedChoices(results, 1)
         \o ( IF GoBroaderOffered(Len(results), currentDistance)
                THEN << GoBroaderChoice >> ELSE << >> )
         \o << CancelChoice >>

\* results[selectedIndex]: undefined outside the array
ResultAt(results, index) ==
  IF index + 1 \in DOMAIN results THEN results[index + 1]
  ELSE [ lineNumber |-> Null, distance |-> Null, entry |-> Undefined ]

\* what select() can settle with: the value of an enabled choice, the
\* ExitPromptError of a closed prompt, or another error
PromptAnswers(choices) ==
  { [ kind |-> "value", value |-> choices[i].value ] :
      i \in { j \in 1..Len(choices) : ~ choices[j].disabled } }
  \cup { [ kind |-> "ExitPromptError", value |-> Null ],
         [ kind |-> "error", value |-> Null ] }

\* the head of the function: the list is assembled (part_004) or taken as
\* handed over (interactive-search.ts), the choices are built and select()
\* is awaited
SelectPrompt ==
  /\ asm.pc = "display"
  /\ LET shown == IF asm.impl = "part_004"
                    THEN sortByDistance(attachEntries(asm.given, asm.entries))
                    ELSE asm.given
     IN asm' = [ asm EXCEPT
          !.pc = "prompt",
          !.results = shown,
          !.choices = BuildChoices(asm.impl, shown, asm.currentDistance) ]
  /\ UNCHANGED << engineVars, flowVars, libVars >>

\* select() settles and the function runs to its next await or to its end
SelectSettles ==
  /\ asm.pc = "prompt"
  /\ \E answer \in PromptAnswers(asm.choices) :
       asm' =
         IF answer.kind = "error"
           THEN [ asm EXCEPT !.pc = "threw" ]
         ELSE IF answer.kind = "ExitPromptError"
           THEN [ asm EXCEPT !.pc = "returned", !.report = "Cancelled" ]
         ELSE IF answer.value = -1
           THEN [ asm EXCEPT !.pc = "returned", !.report = "Cancelled",
                             !.selectedIndex = answer.value ]
         ELSE IF asm.impl = "part_004" /\ answer.value = -3
                 /\ Truthy(asm.currentDistance)
           THEN [ asm EXCEPT !.pc = "broader", !.selectedIndex = answer.value ]
         ELSE IF ~ TruthyEntry(ResultAt(asm.results, answer.value).entry)
           THEN [ asm EXCEPT !.pc = "returned", !.report = "no entry",
                             !.selectedIndex = answer.value ]
         ELSE [ asm EXCEPT
                  !.pc = "extracting",
                  !.selectedIndex = answer.value,
                  !.extractCalls =
                     Append(@, ResultAt(asm.results, answer.value).entry) ]
  /\ UNCHANGED << engineVars, flowVars, libVars >>

\* extractConversation settles: its text goes to copyToClipboard, its
\* rejection is caught and logged
SelectExtractSettles ==
  /\ asm.pc = "extracting"
  /\ \E ok \in BOOLEAN :
       asm' = IF ok
                THEN [ asm EXCEPT !.pc = "copying", !.copyCalls = @ + 1 ]
                ELSE [ asm EXCEPT !.pc = "returned",
                                  !.report = "Failed to extract conversation" ]
  /\ UNCHANGED << engineVars, flowVars, libVars >>

\* copyToClipboard settles; its rejection is caught by the same handler
SelectCopySettles ==
  /\ asm.pc = "copying"
  /\ \E ok \in BOOLEAN :
       asm' = [ asm EXCEPT
                  !.pc = "returned",
                  !.report = IF ok THEN "copied"
                             ELSE "Failed to extract conversation" ]
  /\ UNCHANGED << engineVars, flowVars, libVars >>

InitSelect ==
  /\ EngineIdle
  /\ FlowsIdle
  /\ LibIdle
  /\ \E impl \in { "interactive-search.ts", "part_004" },
        found \in SeqsUpTo([ lineNumber : 0..MaxLineNumber,
                             distance : AsmDistances, entry : {JsNull} ],
                           MaxSelectResults),
        entries \in SeqsUpTo(SelectEntryValues, MaxSelectEntries),
        currentDistance \in { Null, 40 * Hundredth, 60 * Hundredth } :
       /\ impl = "interactive-search.ts" => currentDistance = Null
       /\ asm = [ impl |-> impl, pc |-> "display",
                  given |-> IF impl = "part_004" THEN found
                            ELSE sortByDistance(attachEntries(found, entries)),
                  entries |-> entries, currentDistance |-> currentDistance,
                  results |-> << >>, choices |-> << >>, selectedIndex |-> Null,
                  extractCalls |-> << >>, copyCalls |-> 0, report |-> "none" ]

NextSelect ==
  \/ SelectPrompt
  \/ SelectSettles
  \/ SelectExtractSettles
  \/ SelectCopySettles

SpecSelect == InitSelect /\ [][NextSelect]_vars

\* the invocation was answered with the index of a result that has an entry
SelectedWithEntry ==
  /\ asm.selectedIndex \in 0..(Len(asm.results) - 1)
  /\ TruthyEntry(asm.results[asm.selectedIndex + 1].entry)

\* C37: in an invocation of displayResultsAndCopy, extractConversation is
\* called at most once, with the entry of the selected result, and only
\* after the prompt was answered with the index of a result whose entry is
\* not null; copyToClipboard is called at most once and only after that
\* extraction; an invocation that was cancelled (Cancel or a closed prompt)
\* or answered with a result without entry has returned with neither call;
\* and every enabled choice other than Cancel and Go Broader carries the
\* index of an element of the list.
C37_CopyOnlyAfterSelectingEntry ==
  asm.impl \in { "interactive-search.ts", "part_004" } =>
    /\ asm.copyCalls <= Len(asm.extractCalls)
    /\ Len(asm.extractCalls) <= 1
    /\ asm.extractCalls # << >> =>
         /\ SelectedWithEntry
         /\ asm.extractCalls[1] = asm.results[asm.selectedIndex + 1].entry
    /\ (asm.pc = "returned" /\ asm.report \in { "Cancelled", "no entry" }) =>
         (asm.extractCalls = << >> /\ asm.copyCalls = 0)
    /\ \A i \in 1..Len(asm.choices) :
         (~ asm.choices[i].disabled /\ asm.choices[i].value \notin { -1, -3 }) =>
           asm.choices[i].value \in 0..(Len(asm.results) - 1)

\* the second of two results has an entry, was selected, and its
\* conversation was copied
C37_Witness ==
  /\ asm.impl = "part_004"
  /\ asm.pc = "returned"
  /\ asm.report = "copied"
  /\ Len(asm.results) = 2
  /\ asm.selectedIndex = 1
  /\ ~ TruthyEntry(asm.results[1].entry)
  /\ asm.copyCalls = 1

\* =========================================== the flow of part_004
\* main, handleTooManyResults, autoRefineSearch and the 'Go Broader' branch
\* of displayResultsAndCopy as one run, from the performSearch of main on.
\* The engine variables hold autoRefineSearch as above; pending and calls
\* hold every performSearch of the run, so that a cutoff asked twice gets
\* the same count; displayed logs every invocation of displayResultsAndCopy.
\* cli.pc is the function the run is suspended in.  The dialogue itself is
\* the one of the section above: an answer other than Go Broader ends it.

\* ------------------------------------------------------------- bounds
\* prompts a user answers in one run
MaxPrompts == 2

\* variant: results.length > MAX_RESULTS_DISPLAY + 1
TooManyLate(n) == n > MAX_RESULTS_DISPLAY + 1

\* results.length > MAX_RESULTS_DISPLAY
TooMany(n) == n > MAX_RESULTS_DISPLAY

\* the distances handleTooManyResults offers
MenuDistances == { 30 * Hundredth, 40 * Hundredth, 50 * Hundredth }

\* the last invocation of displayResultsAndCopy
LastDisplay == displayed[Len(displayed)]

\* autoRefineSearch has handed a list to displayResultsAndCopy and awaits it
EngineDisplays ==
  cli.pc = "autoRefineSearch" /\ pc = "done" /\ outcome \in { "Found", "UsingBest" }

\* a performSearch of main, handleTooManyResults or the Go Broader branch
\* is issued
LegacyIssue(who, d) ==
  /\ pending' = [ cutoff |-> d, by |-> who, kind |-> "probe" ]
  /\ cli' = [ cli EXCEPT !.pc = who, !.prompts = @ + 1 ]
  /\ UNCHANGED << pc, auto, bs, calls, displayed, outcome, bsResult >>

\* where a settled performSearch of main or handleTooManyResults leads:
\* back to the menu, or to displayResultsAndCopy with currentDistance d
LegacyRoute(ev, n, d, atZero) ==
  LET r == performSearch(ev, n)
  IN /\ calls' = Settled(ev, n)
     /\ pending' = NoCall
     /\ IF r.rejected
          THEN /\ cli' = [ cli EXCEPT !.pc = "rejected" ]
               /\ UNCHANGED displayed
        ELSE IF r.length = 0
          THEN /\ cli' = [ cli EXCEPT !.pc = atZero, !.resultCount = 0 ]
               /\ UNCHANGED displayed
        ELSE IF TooMany(r.length)
          THEN /\ cli' = [ cli EXCEPT !.pc = "handleTooManyResults",
                                      !.resultCount = r.length ]
               /\ UNCHANGED displayed
        ELSE /\ cli' = [ cli EXCEPT !.pc = "displayResultsAndCopy" ]
             /\ displayed' = Append(displayed,
                  [ cutoff |-> d, count |-> r.length, call |-> Len(calls) + 1 ])
     /\ UNCHANGED << pc, auto, bs, outcome, bsResult >>

\* the performSearch of main settles: no result ends the run, more than
\* MAX_RESULTS_DISPLAY go to handleTooManyResults, the rest is displayed
\* without a currentDistance
LegacyMainSettles ==
  /\ cli.pc = "main"
  /\ \E ev \in SearchEvents : \E n \in StubCounts(pending.cutoff) :
       LegacyRoute(ev, n, Null, "done")
  /\ UNCHANGED << entry, stubCount, maxAttempts, asm, proc, searches, libVars >>

\* the prompt of handleTooManyResults is answered
MenuSettles ==
  /\ cli.pc = "handleTooManyResults"
  /\ cli.prompts < MaxPrompts
  /\ \E answer \in [ kind : { "auto", "cancel", "ExitPromptError", "error" },
                      value : {Null} ]
                    \cup [ kind : {"distance"}, value : MenuDistances ] :
       IF answer.kind = "error"
         THEN /\ cli' = [ cli EXCEPT !.pc = "rejected", !.prompts = @ + 1 ]
              /\ UNCHANGED << engineVars >>
       ELSE IF answer.kind \in { "cancel", "ExitPromptError" }
         THEN /\ cli' = [ cli EXCEPT !.pc = "done", !.prompts = @ + 1 ]
              /\ UNCHANGED << engineVars >>
       ELSE IF answer.kind = "auto"
         THEN /\ Apply(ForLoop([ Cur EXCEPT !.auto = AutoIdle,
                                            !.outcome = "none" ], 1))
              /\ cli' = [ cli EXCEPT !.pc = "autoRefineSearch", !.prompts = @ + 1 ]
              /\ UNCHANGED << entry, stubCount, maxAttempts, calls >>
       ELSE /\ LegacyIssue("handleTooManyResults.search", answer.value)
            /\ UNCHANGED << entry, stubCount, maxAttempts >>
  /\ UNCHANGED << asm, proc, searches, libVars >>

\* the performSearch of handleTooManyResults settles: no result and too
\* many results call handleTooManyResults again
MenuSearchSettles ==
  /\ cli.pc = "handleTooManyResults.search"
  /\ \E ev \in SearchEvents : \E n \in StubCounts(pending.cutoff) :
       LegacyRoute(ev, n, pending.cutoff, "handleTooManyResults")
  /\ UNCHANGED << entry, stubCount, maxAttempts, asm, proc, searches, libVars >>

\* the prompt of displayResultsAndCopy is answered: Go Broader, when it is
\* offered, searches at currentDistance + 0.1; any other answer ends the run
DialogueSettles ==
  /\ cli.pc = "displayResultsAndCopy" \/ EngineDisplays
  /\ cli.prompts < MaxPrompts
  /\ \E answer \in { "broader", "item", "cancel", "ExitPromptError", "error" } :
       IF answer = "broader"
         THEN /\ GoBroaderOffered(LastDisplay.count, LastDisplay.cutoff)
              /\ LegacyIssue("displayResultsAndCopy.search",
                             LastDisplay.cutoff + 10 * Hundredth)
       ELSE /\ cli' = [ cli EXCEPT
                 !.pc = IF answer = "error" THEN "rejected" ELSE "done",
                 !.prompts = @ + 1 ]
            /\ UNCHANGED << engineVars >>
  /\ UNCHANGED << entry, stubCount, maxAttempts, asm, proc, searches, libVars >>

\* the performSearch of the Go Broader branch settles: no result displays
\* the list at hand again, too many go to handleTooManyResults, the rest is
\* displayed with the new distance
BroaderSearchSettles ==
  /\ cli.pc = "displayResultsAndCopy.search"
  /\ \E ev \in SearchEvents : \E n \in StubCounts(pending.cutoff) :
       LET r == performSearch(ev, n)
       IN IF ~ r.rejected /\ r.length = 0
            THEN /\ calls' = Settled(ev, n)
                 /\ pending' = NoCall
                 /\ displayed' = Append(displayed, LastDisplay)
                 /\ cli' = [ cli EXCEPT !.pc = "displayResultsAndCopy" ]
                 /\ UNCHANGED << pc, auto, bs, outcome, bsResult >>
            ELSE LegacyRoute(ev, n, pending.cutoff, "displayResultsAndCopy")
  /\ UNCHANGED << entry, stubCount, maxAttempts, asm, proc, searches, libVars >>

InitLegacy ==
  /\ entry = "autoRefineSearch"
  /\ stubCount \in [ 1..Len(DISTANCE_THRESHOLDS) -> Counts ]
  /\ maxAttempts = AUTO_REFINE_MAX_ATTEMPTS
  /\ pc = "idle"
  /\ \E first \in { Null, THRESHOLD_PRECISE } :
       pending = [ cutoff |-> first, by |-> "main", kind |-> "probe" ]
  /\ auto = AutoIdle
  /\ bs = BSIdle
  /\ calls = << >>
  /\ displayed = << >>
  /\ outcome = "none"
  /\ bsResult = "none"
  /\ asm = AsmIdle
  /\ proc = ProcIdle
  /\ searches = << >>
  /\ LibIdle
  /\ cli = [ program |-> "part_004", pc |-> "main", resultCount |-> 0,
             prompts |-> 0 ]

NextLegacy ==
  \/ LegacyMainSettles
  \/ MenuSettles
  \/ MenuSearchSettles
  \/ AutoRefineStep
  \/ DialogueSettles
  \/ BroaderSearchSettles

SpecLegacy == InitLegacy /\ [][NextLegacy]_vars

\* C34: in a run of main of part_004, every invocation of
\* displayResultsAndCopy gets between 1 and MAX_RESULTS_DISPLAY results,
\* the results of a performSearch that succeeded with that count; and
\* handleTooManyResults holds a count that is 0 or above
\* MAX_RESULTS_DISPLAY.  The primitive gives the same count for the same
\* cutoff.
C34_DisplayedWithinWindow ==
  cli.program = "part_004" =>
    /\ \A i \in 1..Len(displayed) :
         /\ displayed[i].count \in 1..W
         /\ displayed[i].call \in 1..Len(calls)
         /\ CallOk(calls[displayed[i].call])
         /\ calls[displayed[i].call].count = displayed[i].count
    /\ \A k \in 1..Len(calls) :
         (CallOk(calls[k]) /\ (calls[k].count > W \/ calls[k].count = 0)) =>
           \A i \in 1..Len(displayed) : displayed[i].call # k
    /\ cli.pc \in { "handleTooManyResults", "handleTooManyResults.search" } =>
         (cli.resultCount = 0 \/ cli.resultCount > W)

\* more than W results went to handleTooManyResults, a distance of the
\* menu gave a list that was displayed, and Go Broader gave another
C34_Witness ==
  /\ cli.program = "part_004"
  /\ cli.pc = "displayResultsAndCopy"
  /\ Len(calls) = 3
  /\ calls[1].count > W
  /\ Len(displayed) = 2
  /\ displayed[1].cutoff < displayed[2].cutoff
  /\ displayed[1].count < displayed[2].count

====
